---- MODULE Spec2Model ----
(***************************************************************************)
(* Model of the DimensionXSalesApp back end: the cash-register router      *)
(* (POST /open, POST /close, GET /today, GET /monthly and                  *)
(* calculateMonthlyStats), the sale ledger (POST /api/sales,               *)
(* PUT /api/sales/:id), the expense ledger (POST /api/expenses) and the    *)
(* attendance router (POST /clock-in, POST /clock-out, and the attendance  *)
(* summary matrix), running as concurrent request handlers against one     *)
(* shared relational store.                                                *)
(*                                                                         *)
(* Every `await db.query(...)` of a handler is one atomic step; two        *)
(* handlers interleave between their queries.  The synchronous code that   *)
(* follows a query (the branch on its result, the response) belongs to the *)
(* step of that query.                                                     *)
(*                                                                         *)
(* Money is counted in whole cents.  SQL NULL is the empty tuple <<>> and  *)
(* a non-NULL value v is the one-element tuple <<v>>.  A string is a       *)
(* sequence of tokens.  A date of the year 2024 is the number              *)
(* 100 * month + day.  Tables are sequences in insertion order, which is   *)
(* the order of the auto-increment key; a SELECT without ORDER BY returns  *)
(* its rows in that order.                                                 *)
(***************************************************************************)
EXTENDS Integers, Sequences, FiniteSets, TLC

VARIABLES cash_register, sales, expenses, staff_attendance, game_problems,
          req, calls

vars == <<cash_register, sales, expenses, staff_attendance, game_problems,
          req, calls>>

\* The tables of the other routers, as seen from a handler that does not
\* touch them.
ledgers == <<expenses, staff_attendance, game_problems>>

\* ------------------------------------------------------------------------
\* Bounds of the model
\* ------------------------------------------------------------------------
\* Number of requests a behaviour may receive.
MaxCalls == 3

\* The handlers that can be in flight at a time.
Slots == {1, 2}

\* The request bodies the callers send.
Dates == {531, 601}

\* The (store, date) pairs the requests that write name: two stores on one
\* day and one store on two days.
Keys == {<<1, 531>>, <<2, 531>>, <<1, 601>>}

OpenBodies == {[opening_cash |-> 10000, notes |-> <<>>],
               [opening_cash |-> 50000, notes |-> << <<"o">> >>]}
CloseBodies == {[closing_cash |-> 15000, notes |-> <<>>],
                [closing_cash |-> 10000, notes |-> << <<"c">> >>]}
CashAmounts == {5000}
Months == {5, 6, 13}

\* ------------------------------------------------------------------------
\* Values
\* ------------------------------------------------------------------------
NULL == <<>>

Some(v) == <<v>>

\* JavaScript `undefined` as a response field.
Undefined == "undefined"

\* A field of a JSON body is given or left out (JavaScript undefined).
Absent == <<>>

Given(v) == <<v>>

\* parseFloat(x) || 0 of a nullable DECIMAL column: NULL gives NaN, and
\* NaN || 0 gives 0.
ParseFloatOr0(x) == IF x = NULL THEN 0 ELSE x[1]

\* MySQL CONCAT_WS(' | ', a, b): NULL arguments are skipped, the separator
\* stands between the remaining ones, and the result is never NULL.
ConcatWs(a, b) ==
    IF a = NULL /\ b = NULL THEN Some(<<>>)
    ELSE IF a = NULL THEN b
    ELSE IF b = NULL THEN a
    ELSE Some(a[1] \o <<" | ">> \o b[1])

\* ------------------------------------------------------------------------
\* Reference tables, never written by the modelled routes
\* ------------------------------------------------------------------------
\* stores: store_id -> store_type / store_name.
StoreIds == {1, 2}

StoreType(s) == IF s = 1 THEN "arcade" ELSE "toys"

StoreName(s) == IF s = 1 THEN "Arcade" ELSE "Toys"

\* `ORDER BY s.store_name` over the stores table above.
StoresByName == <<1, 2>>

\* users: the authenticated callers (req.user).
Users == {
    [user_id |-> 1, user_type |-> "staff", assigned_store |-> "arcade"],
    [user_id |-> 2, user_type |-> "manager", assigned_store |-> "all"],
    [user_id |-> 3, user_type |-> "admin", assigned_store |-> "all"] }

\* A staff user assigned to a store type that no store of the table has
\* (the user routes accept arcade, dreamcube, toys_merch and all).
Unplaced ==
    {[user_id |-> 4, user_type |-> "staff", assigned_store |-> "dreamcube"]}
\* The users row with an id (req.user of a handler in flight).
UserOfId(id) == CHOOSE u \in Users \cup Unplaced : u.user_id = id
\* The callers of the routes that write.
Tellers == {u \in Users : u.user_type = "staff"}

\* The store list written into the SUM query of POST /close.
SharedTillStores == {1, 2, 3, 4}

\* A request that carries no token: authMiddleware sets no req.user.
NoUser == [user_id |-> 0, user_type |-> "none", assigned_store |-> "none"]

\* authorize that lets every authenticated user through.
authorizeAnyUser(roles, user) == user # NoUser

\* authorize(...roles): the handler runs only for a listed user_type.
authorize(roles, user) == user.user_type \in roles

CashRoles == {"staff", "manager", "admin"}

\* ------------------------------------------------------------------------
\* Queries
\* ------------------------------------------------------------------------
RECURSIVE SumSeq(_)
SumSeq(s) == IF s = <<>> THEN 0 ELSE Head(s) + SumSeq(Tail(s))

RECURSIVE MapCash(_)
MapCash(s) == IF s = <<>> THEN <<>> ELSE <<Head(s).cash_amount>> \o MapCash(Tail(s))

\* SELECT * FROM cash_register WHERE store_id = ? AND register_date = ?
SelectRegister(store, date) ==
    SelectSeq(cash_register,
              LAMBDA row: row.store_id = store /\ row.register_date = date)

\* SELECT COALESCE(SUM(cash_amount), 0) FROM sales
\*   WHERE store_id IN (1,2,3,4) AND sale_date = ?
SumCashSharedTill(date) ==
    SumSeq(MapCash(SelectSeq(sales,
        LAMBDA s: s.store_id \in SharedTillStores /\ s.sale_date = date)))

\* SELECT COALESCE(SUM(cash_amount), 0) FROM sales
\*   WHERE store_id = ? AND sale_date = ?
SumCashStore(store, date) ==
    SumSeq(MapCash(SelectSeq(sales,
        LAMBDA s: s.store_id = store /\ s.sale_date = date)))

\* SELECT ... FROM stores WHERE store_id = ?, destructured as
\* `const [stores] = await db.query(...)`: db.query returns the rows, so
\* `stores` is the first row, or undefined when no store has that id.
StoreRowFound(store) == store \in StoreIds

\* ------------------------------------------------------------------------
\* Requests
\* ------------------------------------------------------------------------
NoResp == [status |-> 0, message |-> "", data |-> <<>>]

Resp(status, message, data) ==
    [status |-> status, message |-> message, data |-> data]

IdleReq ==
    [pc |-> "idle", kind |-> "none", user |-> 0, store |-> 0, date |-> 0,
     amount |-> 0, notes |-> NULL, opening |-> 0, total |-> 0,
     rows |-> <<>>, acc |-> <<>>, args |-> <<>>, resp |-> NoResp]

\* A finished handler: only its response remains.
Done(kind, resp) == [IdleReq EXCEPT !.pc = "done", !.kind = kind, !.resp = resp]

NewReq(kind, user, store, date, amount, notes) ==
    [IdleReq EXCEPT !.kind = kind, !.user = user, !.store = store,
                    !.date = date, !.amount = amount, !.notes = notes]

\* The slots after handler r has moved to `next`.  Only the latest response
\* is kept: when a handler answers, the answers of the handlers that
\* finished before it are dropped.
Put(r, next) ==
    [q \in Slots |->
        IF q = r THEN next
        ELSE IF next.pc = "done" /\ req[q].pc = "done" THEN IdleReq
        ELSE req[q]]

\* A slot is free when no handler runs in it; the lowest free slot takes
\* the next request.
Free(r) ==
    /\ req[r].pc \in {"idle", "done"}
    /\ \A q \in Slots : q < r => req[q].pc \notin {"idle", "done"}
    /\ calls < MaxCalls

Init ==
    /\ cash_register = <<>>
    /\ sales = <<>>
    /\ expenses = <<>>
    /\ staff_attendance = <<>>
    /\ game_problems = <<>>
    /\ req = [r \in Slots |-> IdleReq]
    /\ calls = 0

\* ------------------------------------------------------------------------
\* POST /api/cash/open
\* ------------------------------------------------------------------------
\* The request arrives, passes authorize, and the existence check runs:
\* `existingRegister.length > 0` sends the handler to the UPDATE, otherwise
\* to the INSERT.
OpenCall(r, u, s, d, b) ==
    /\ Free(r)
    /\ authorize(CashRoles, u)
    /\ req' = Put(r,
            [NewReq("open", u.user_id, s, d, b.opening_cash, b.notes) EXCEPT
                !.pc = IF Len(SelectRegister(s, d)) > 0
                       THEN "open_update" ELSE "open_insert"])
    /\ calls' = calls + 1
    /\ UNCHANGED <<cash_register, sales, ledgers>>

OpenSelect(r) ==
    \E u \in Tellers, k \in Keys, b \in OpenBodies :
        OpenCall(r, u, k[1], k[2], b)

\* UpdateOpening with `notes = ?` in place of the CONCAT_WS.
UpdateOpeningReplacesNotes(table, store, date, opening, notes) ==
    [i \in DOMAIN table |->
        IF table[i].store_id = store /\ table[i].register_date = date
        THEN [table[i] EXCEPT !.opening_cash = opening, !.notes = notes]
        ELSE table[i]]

\* UPDATE cash_register SET opening_cash = ?, notes = CONCAT_WS(' | ', notes, ?)
\*   WHERE store_id = ? AND register_date = ?
UpdateOpening(table, store, date, opening, notes) ==
    [i \in DOMAIN table |->
        IF table[i].store_id = store /\ table[i].register_date = date
        THEN [table[i] EXCEPT !.opening_cash = opening,
                              !.notes = ConcatWs(@, notes)]
        ELSE table[i]]

\* An entry was found: it is updated and the caller gets the 400 conflict.
OpenUpdate(r) ==
    /\ req[r].pc = "open_update"
    /\ cash_register' = UpdateOpening(cash_register, req[r].store,
                            req[r].date, req[r].amount, req[r].notes)
    /\ req' = Put(r, Done("open", Resp(400,
                "Cash register already opened for today and it updated", <<>>)))
    /\ UNCHANGED <<sales, calls, ledgers>>

\* INSERT INTO cash_register (store_id, user_id, register_date,
\*   opening_cash, notes) VALUES (?, ?, ?, ?, ?)
InsertRegister(table, store, user, date, opening, notes) ==
    Append(table,
        [register_id |-> Len(table) + 1, store_id |-> store,
         user_id |-> user, register_date |-> date, opening_cash |-> opening,
         closing_cash |-> NULL, calculated_cash |-> NULL,
         cash_difference |-> NULL, notes |-> notes])

\* No entry was found: the row is inserted.
OpenInsert(r) ==
    /\ req[r].pc = "open_insert"
    /\ cash_register' = InsertRegister(cash_register, req[r].store,
            req[r].user, req[r].date, req[r].amount, req[r].notes)
    /\ req' = [req EXCEPT ![r].pc = "open_store",
                          ![r].total = Len(cash_register) + 1]
    /\ UNCHANGED <<sales, calls, ledgers>>

\* The store lookup and the 201 response.  `stores[0]?.store_name` reads
\* index 0 of the store row, which is undefined, and throws when there is
\* no row.
OpenStore(r) ==
    /\ req[r].pc = "open_store"
    /\ req' = Put(r, Done("open",
            IF StoreRowFound(req[r].store)
            THEN Resp(201, "Cash register opened successfully",
                      [register_id |-> req[r].total,
                       store_name |-> Undefined,
                       date |-> req[r].date,
                       opening_cash |-> req[r].amount])
            ELSE Resp(500, "Error opening cash register", <<>>)))
    /\ UNCHANGED <<cash_register, sales, calls, ledgers>>

\* ------------------------------------------------------------------------
\* POST /api/cash/close
\* ------------------------------------------------------------------------
\* CloseCheck without the test of the closing balance.
CloseCheckSkipsClosed(register) ==
    IF Len(register) = 0 THEN "not_opened" ELSE "proceed"

\* CloseCheck with the two tests folded into one answer.
CloseCheckFoldsMissing(register) ==
    IF Len(register) = 0 \/ register[1].closing_cash # NULL
    THEN "already_closed" ELSE "proceed"

\* The two checks on the rows read: `register.length === 0`, then
\* `register[0].closing_cash !== null`.
CloseCheck(register) ==
    IF Len(register) = 0 THEN "not_opened"
    ELSE IF register[1].closing_cash # NULL THEN "already_closed"
    ELSE "proceed"

\* The request arrives, passes authorize, and the register is read:
\* no row gives 400 (not opened), a closed first row gives 400 (already
\* closed), otherwise the handler goes on with the opening it has read.
CloseCall(r, u, s, d, b) ==
    /\ Free(r)
    /\ authorize(CashRoles, u)
    /\ LET register == SelectRegister(s, d)
           check == CloseCheck(register)
       IN req' = Put(r,
            IF check = "not_opened"
            THEN Done("close", Resp(400,
                    "Cash register not opened for today", <<>>))
            ELSE IF check = "already_closed"
            THEN Done("close", Resp(400,
                    "Cash register already closed for today", <<>>))
            ELSE [NewReq("close", u.user_id, s, d, b.closing_cash, b.notes)
                    EXCEPT !.pc = "close_sum",
                           !.opening = register[1].opening_cash])
    /\ calls' = calls + 1
    /\ UNCHANGED <<cash_register, sales, ledgers>>

CloseSelect(r) ==
    \E u \in Tellers, k \in Keys, b \in CloseBodies :
        CloseCall(r, u, k[1], k[2], b)

\* The day's cash sales are summed.
CloseSum(r) ==
    /\ req[r].pc = "close_sum"
    /\ req' = [req EXCEPT ![r].pc = "close_update",
                          ![r].total = SumCashSharedTill(req[r].date)]
    /\ UNCHANGED <<cash_register, sales, calls, ledgers>>

\* calculated_cash = opening_cash + total_cash_sales
calculated_cash(opening, total_cash_sales) == opening + total_cash_sales

\* cash_difference = parseFloat(closing_cash) - calculated_cash
cash_difference(closing, calculated) == closing - calculated

\* UpdateClosing with `notes = ?` in place of the CONCAT_WS.
UpdateClosingReplacesNotes(table, store, date, closing, calculated, difference, notes) ==
    [i \in DOMAIN table |->
        IF table[i].store_id = store /\ table[i].register_date = date
        THEN [table[i] EXCEPT !.closing_cash = Some(closing),
                              !.calculated_cash = Some(calculated),
                              !.cash_difference = Some(difference),
                              !.notes = notes]
        ELSE table[i]]
\* UPDATE cash_register SET closing_cash = ?, calculated_cash = ?,
\*   cash_difference = ?, closing_time = NOW(),
\*   notes = CONCAT_WS(' | ', notes, ?)
\*   WHERE store_id = ? AND register_date = ?
UpdateClosing(table, store, date, closing, calculated, difference, notes) ==
    [i \in DOMAIN table |->
        IF table[i].store_id = store /\ table[i].register_date = date
        THEN [table[i] EXCEPT !.closing_cash = Some(closing),
                              !.calculated_cash = Some(calculated),
                              !.cash_difference = Some(difference),
                              !.notes = ConcatWs(@, notes)]
        ELSE table[i]]

\* The closing values are written.
CloseUpdate(r) ==
    /\ req[r].pc = "close_update"
    /\ LET calculated == calculated_cash(req[r].opening, req[r].total)
           difference == cash_difference(req[r].amount, calculated)
       IN cash_register' = UpdateClosing(cash_register, req[r].store,
              req[r].date, req[r].amount, calculated, difference, req[r].notes)
    /\ req' = [req EXCEPT ![r].pc = "close_store"]
    /\ UNCHANGED <<sales, calls, ledgers>>

\* The store lookup and the 200 response with the computed values.
CloseStore(r) ==
    /\ req[r].pc = "close_store"
    /\ LET calculated == calculated_cash(req[r].opening, req[r].total) IN
       req' = Put(r, Done("close",
            IF StoreRowFound(req[r].store)
            THEN Resp(200, "Cash register closed successfully",
                      [store_id |-> req[r].store,
                       date |-> req[r].date,
                       opening_cash |-> req[r].opening,
                       closing_cash |-> req[r].amount,
                       total_cash_sales |-> req[r].total,
                       calculated_cash |-> calculated,
                       cash_difference |->
                           cash_difference(req[r].amount, calculated)])
            ELSE Resp(500, "Error closing cash register", <<>>)))
    /\ UNCHANGED <<cash_register, sales, calls, ledgers>>

\* ------------------------------------------------------------------------
\* POST /api/sales
\* ------------------------------------------------------------------------
total_amount_without_booking(cash, upi, card, booking) == cash + upi + card

\* total_amount = cash + upi + card + booking
total_amount(cash, upi, card, booking) == cash + upi + card + booking

\* INSERT INTO sales (...) VALUES (...)
InsertSale(table, store, date, cash, upi, card, booking) ==
    Append(table,
        [sale_id |-> Len(table) + 1, store_id |-> store, sale_date |-> date,
         cash_amount |-> cash, upi_amount |-> upi, card_amount |-> card,
         booking_amount |-> booking,
         total_amount |-> total_amount(cash, upi, card, booking)])

\* A destructuring default: `cash_amount = 0` takes 0 for a field left out.
OrDefault(field, default) == IF field = Absent THEN default ELSE field[1]

\* The request arrives and passes authorize; without store_id it is
\* answered 400; otherwise the total is computed and the sale is inserted,
\* the amounts left out of the body being 0.
SaleCall(r, u, b) ==
    /\ Free(r)
    /\ authorize(CashRoles, u)
    /\ IF b.store_id = Absent
       THEN /\ req' = Put(r, Done("sale",
                        Resp(400, "Store ID is required", <<>>)))
            /\ UNCHANGED sales
       ELSE LET cash_amount == OrDefault(b.cash_amount, 0)
                upi_amount == OrDefault(b.upi_amount, 0)
                card_amount == OrDefault(b.card_amount, 0)
                booking_amount == OrDefault(b.booking_amount, 0)
            IN /\ sales' = InsertSale(sales, b.store_id[1], b.sale_date,
                              cash_amount, upi_amount, card_amount,
                              booking_amount)
               /\ req' = Put(r,
                      [NewReq("sale", u.user_id, b.store_id[1], b.sale_date,
                              cash_amount, NULL) EXCEPT
                          !.pc = "sale_store", !.total = Len(sales) + 1])
    /\ calls' = calls + 1
    /\ UNCHANGED <<cash_register, ledgers>>

\* The sales the cash register sees: cash sales of the tellers.
SaleInsert(r) ==
    \E u \in Tellers, k \in Keys, c \in CashAmounts :
        SaleCall(r, u, [store_id |-> Given(k[1]), sale_date |-> k[2],
                        cash_amount |-> Given(c), upi_amount |-> Absent,
                        card_amount |-> Absent, booking_amount |-> Absent])

\* The store lookup and the 201 response.
SaleStore(r) ==
    /\ req[r].pc = "sale_store"
    /\ req' = Put(r, Done("sale",
            IF StoreRowFound(req[r].store)
            THEN Resp(201, "Sale recorded successfully",
                      [sale_id |-> req[r].total])
            ELSE Resp(500, "Error recording sale", <<>>)))
    /\ UNCHANGED <<cash_register, sales, calls, ledgers>>

\* ------------------------------------------------------------------------
\* GET /api/cash/today
\* ------------------------------------------------------------------------
\* user.user_type === 'staff' && user.assigned_store !== 'all'
Restricted(user) == user.user_type = "staff" /\ user.assigned_store # "all"

\* SELECT store_id FROM stores WHERE store_type = ?
StoresOfType(type) == {s \in StoreIds : StoreType(s) = type}

UserIds == {u.user_id : u \in Users}

\* `cr.store_id IN (?)` bound to the JavaScript array of store ids through
\* a prepared statement: the array is not expanded into a list.  Converted
\* to text it compares as its leading number, the first id ("first_id");
\* converted to JSON it equals no store id ("no_match").
InListModes == {"first_id", "no_match"}

InList(store, ids, mode) ==
    /\ mode = "first_id"
    /\ store = CHOOSE m \in ids : \A x \in ids : m <= x

\* The rows of one store, and the rows of the stores in the order of
\* `ORDER BY s.store_name`.
RECURSIVE OrderByStoreName(_, _)
OrderByStoreName(rows, order) ==
    IF order = <<>> THEN <<>>
    ELSE SelectSeq(rows, LAMBDA row: row.store_id = Head(order))
            \o OrderByStoreName(rows, Tail(order))

\* SELECT cr.*, ... FROM cash_register cr JOIN stores s ... JOIN users u ...
\*   WHERE cr.register_date = ? [AND cr.store_id IN (?)] ORDER BY s.store_name
\* filter is <<>> without the IN clause and <<ids, mode>> with it.
TodayRegisters(date, filter) ==
    OrderByStoreName(
        SelectSeq(cash_register, LAMBDA row:
            /\ row.register_date = date
            /\ row.store_id \in StoreIds
            /\ row.user_id \in UserIds
            /\ filter # <<>> => InList(row.store_id, filter[1], filter[2])),
        StoresByName)

TodayResp(date, registers) ==
    Resp(200, "", [date |-> date, registers |-> registers])

\* The registers are fetched; with none, the response follows at once.
TodayFetched(date, registers) ==
    IF registers = <<>>
    THEN Done("today", TodayResp(date, <<>>))
    ELSE [NewReq("today", 0, 0, date, 0, NULL) EXCEPT
            !.pc = "today_sales", !.rows = registers]

\* The request arrives and passes authorize.  Without a date it gets 400.
\* A restricted staff caller first reads the stores of their type; every
\* other caller reads the registers at once.
TodayStart(r) ==
    /\ Free(r)
    /\ \E u \in Users, d \in Dates \cup {0} :
         /\ authorize(CashRoles, u)
         /\ req' = Put(r,
                IF d = 0
                THEN Done("today", Resp(400, "Date parameter is required", <<>>))
                ELSE IF Restricted(u)
                THEN [NewReq("today", u.user_id, 0, d, 0, NULL) EXCEPT
                        !.pc = "today_registers",
                        !.acc = StoresOfType(u.assigned_store)]
                ELSE TodayFetched(d, TodayRegisters(d, <<>>)))
    /\ calls' = calls + 1
    /\ UNCHANGED <<cash_register, sales, ledgers>>

\* The registers query of a restricted caller: the IN clause is added when
\* at least one store has the caller's type.
TodayQuery(r) ==
    /\ req[r].pc = "today_registers"
    /\ \E mode \in InListModes :
         req' = Put(r, TodayFetched(req[r].date,
                    TodayRegisters(req[r].date,
                        IF req[r].acc # {} THEN <<req[r].acc, mode>> ELSE <<>>)))
    /\ UNCHANGED <<cash_register, sales, calls, ledgers>>

\* TodaySales that also stores the previewed expected cash on the register.
TodaySalesStoresPreview(r) ==
    /\ req[r].pc = "today_sales"
    /\ LET register == Head(req[r].rows)
           preview == SumCashStore(register.store_id, req[r].date)
           out == Append(req[r].acc,
                    [register |-> register, cash_sales_today |-> preview])
       IN /\ req' = Put(r,
                IF Tail(req[r].rows) = <<>>
                THEN Done("today", TodayResp(req[r].date, out))
                ELSE [req[r] EXCEPT !.rows = Tail(@), !.acc = out])
          /\ cash_register' =
                [i \in DOMAIN cash_register |->
                    IF cash_register[i].register_id = register.register_id
                    THEN [cash_register[i] EXCEPT !.calculated_cash =
                            Some(register.opening_cash + preview)]
                    ELSE cash_register[i]]
    /\ UNCHANGED <<sales, calls, ledgers>>

\* One turn of the loop: the live cash sales of the next register are read
\* and set on the fetched row; after the last one the response is sent.
TodaySales(r) ==
    /\ req[r].pc = "today_sales"
    /\ LET register == Head(req[r].rows)
           out == Append(req[r].acc,
                    [register |-> register,
                     cash_sales_today |->
                         SumCashStore(register.store_id, req[r].date)])
       IN req' = Put(r,
                IF Tail(req[r].rows) = <<>>
                THEN Done("today", TodayResp(req[r].date, out))
                ELSE [req[r] EXCEPT !.rows = Tail(@), !.acc = out])
    /\ UNCHANGED <<cash_register, sales, calls, ledgers>>

\* ------------------------------------------------------------------------
\* GET /api/cash/monthly and calculateMonthlyStats
\* ------------------------------------------------------------------------
\* A quotient n / d of two integers, kept as the pair it is computed from.
Quot(n, d) == [num |-> n, den |-> d]

Zero == Quot(0, 1)

EmptyBreakdown ==
    [total_opening_cash |-> 0, total_closing_cash |-> 0,
     total_calculated_cash |-> 0, total_cash_difference |-> 0,
     total_cash_sales |-> 0, days_opened |-> 0, days_closed |-> 0]

EmptyStats ==
    [total_opening_cash |-> 0, total_closing_cash |-> 0,
     total_calculated_cash |-> 0, total_cash_difference |-> 0,
     total_cash_sales |-> 0, days_opened |-> 0, days_closed |-> 0,
     perfect_matches |-> 0, variances |-> 0,
     store_breakdown |-> [t \in {} |-> EmptyBreakdown]]

\* CountsAsPerfect without the enclosing test of closing_cash.
CountsAsPerfectWhenOpen(register) ==
    ParseFloatOr0(register.cash_difference) = 0

\* Inside `if (register.closing_cash !== null)`: `cashDifference === 0`
\* counts a perfect match, anything else a variance.
CountsAsPerfect(register) ==
    /\ register.closing_cash # NULL
    /\ ParseFloatOr0(register.cash_difference) = 0

CountsAsVariance(register) ==
    /\ register.closing_cash # NULL
    /\ ParseFloatOr0(register.cash_difference) # 0

\* The body of registers.forEach: one register is added to the totals, to
\* the totals of its store type and to the counts.
AddRegister(stats, register) ==
    LET storeType == register.store_type
        openingCash == register.opening_cash
        closingCash == ParseFloatOr0(register.closing_cash)
        calculatedCash == ParseFloatOr0(register.calculated_cash)
        cashDifference == ParseFloatOr0(register.cash_difference)
        cashSales == register.total_cash_sales
        closed == register.closing_cash # NULL
        old == IF storeType \in DOMAIN stats.store_breakdown
               THEN stats.store_breakdown[storeType] ELSE EmptyBreakdown
        new == [total_opening_cash |-> old.total_opening_cash + openingCash,
                total_closing_cash |-> old.total_closing_cash + closingCash,
                total_calculated_cash |->
                    old.total_calculated_cash + calculatedCash,
                total_cash_difference |->
                    old.total_cash_difference + cashDifference,
                total_cash_sales |-> old.total_cash_sales + cashSales,
                days_opened |-> old.days_opened + 1,
                days_closed |-> old.days_closed + (IF closed THEN 1 ELSE 0)]
    IN [total_opening_cash |-> stats.total_opening_cash + openingCash,
        total_closing_cash |-> stats.total_closing_cash + closingCash,
        total_calculated_cash |-> stats.total_calculated_cash + calculatedCash,
        total_cash_difference |-> stats.total_cash_difference + cashDifference,
        total_cash_sales |-> stats.total_cash_sales + cashSales,
        days_opened |-> stats.days_opened + 1,
        days_closed |-> stats.days_closed + (IF closed THEN 1 ELSE 0),
        perfect_matches |-> stats.perfect_matches +
            (IF CountsAsPerfect(register) THEN 1 ELSE 0),
        variances |-> stats.variances +
            (IF CountsAsVariance(register) THEN 1 ELSE 0),
        store_breakdown |->
            [t \in DOMAIN stats.store_breakdown \cup {storeType} |->
                IF t = storeType THEN new ELSE stats.store_breakdown[t]]]

RECURSIVE FoldRegisters(_, _)
FoldRegisters(stats, registers) ==
    IF registers = <<>> THEN stats
    ELSE FoldRegisters(AddRegister(stats, Head(registers)), Tail(registers))

\* stats.average_opening_cash and stats.average_cash_difference
average_opening_cash(stats) ==
    IF stats.days_opened > 0
    THEN Quot(stats.total_opening_cash, stats.days_opened) ELSE Zero

\* average_cash_difference divided by the days opened.
average_cash_difference_per_opened(stats) ==
    IF stats.days_opened > 0
    THEN Quot(stats.total_cash_difference, stats.days_opened) ELSE Zero

average_cash_difference(stats) ==
    IF stats.days_closed > 0
    THEN Quot(stats.total_cash_difference, stats.days_closed) ELSE Zero

calculateMonthlyStats(registers) ==
    LET stats == FoldRegisters(EmptyStats, registers) IN
    stats @@ [average_opening_cash |-> average_opening_cash(stats),
              average_cash_difference |-> average_cash_difference(stats)]

\* The number of days of a month of 2024.
DaysInMonth(m) ==
    IF m = 2 THEN 29 ELSE IF m \in {4, 6, 9, 11} THEN 30 ELSE 31

\* startDate = `${year}-${month.padStart(2, '0')}-01`
StartDate(m) == 100 * m + 1

\* endDate = new Date(yearNum, monthNum, 0).toISOString().split('T')[0]:
\* local midnight of the last day of the month, printed in UTC, which is
\* the day before when the server's zone is ahead of UTC.
EndDate(m, aheadOfUTC) ==
    100 * m + DaysInMonth(m) - (IF aheadOfUTC THEN 1 ELSE 0)

\* The SELECT of GET /monthly: the registers of the date range joined with
\* their store and user, each with the cash sales of its store and date,
\* newest date first, then by store name.
\* store is 0 without the store_id filter; filter is as in TodayRegisters.
RECURSIVE OrderByDateDesc(_, _)
OrderByDateDesc(rows, dates) ==
    IF dates = {} THEN <<>>
    ELSE LET d == CHOOSE x \in dates : \A y \in dates : y <= x IN
         OrderByStoreName(SelectSeq(rows, LAMBDA row: row.register_date = d),
                          StoresByName)
            \o OrderByDateDesc(rows, dates \ {d})

MonthlyRow(row) ==
    [register_id |-> row.register_id, store_id |-> row.store_id,
     user_id |-> row.user_id, register_date |-> row.register_date,
     opening_cash |-> row.opening_cash, closing_cash |-> row.closing_cash,
     calculated_cash |-> row.calculated_cash,
     cash_difference |-> row.cash_difference, notes |-> row.notes,
     store_type |-> StoreType(row.store_id),
     total_cash_sales |-> SumCashStore(row.store_id, row.register_date)]

MonthlyRegisters(startDate, endDate, store, filter) ==
    LET rows == SelectSeq(cash_register, LAMBDA row:
                    /\ row.register_date >= startDate
                    /\ row.register_date <= endDate
                    /\ row.store_id \in StoreIds
                    /\ row.user_id \in UserIds
                    /\ store # 0 => row.store_id = store
                    /\ filter # <<>> =>
                           InList(row.store_id, filter[1], filter[2]))
        sorted == OrderByDateDesc(rows,
                      {rows[i].register_date : i \in DOMAIN rows})
    IN [i \in DOMAIN sorted |-> MonthlyRow(sorted[i])]

MonthlyResp(m, startDate, endDate, registers) ==
    Resp(200, "", [month |-> m, start_date |-> startDate,
                   end_date |-> endDate, total_days |-> DaysInMonth(m),
                   data |-> registers,
                   statistics |-> calculateMonthlyStats(registers)])

\* The request arrives and passes authorize; a month outside 1..12 gets
\* 400.  A restricted staff caller first reads the stores of their type;
\* every other caller reads the registers at once and gets the statistics.
MonthlyStart(r) ==
    /\ Free(r)
    /\ \E u \in Users \cup Unplaced, m \in Months, s \in StoreIds \cup {0},
          aheadOfUTC \in BOOLEAN :
         /\ authorize(CashRoles, u)
         /\ req' = Put(r,
                IF m < 1 \/ m > 12
                THEN Done("monthly",
                        Resp(400, "Month must be between 1 and 12", <<>>))
                ELSE IF Restricted(u)
                THEN [NewReq("monthly", u.user_id, s, EndDate(m, aheadOfUTC),
                             m, NULL) EXCEPT
                        !.pc = "monthly_registers",
                        !.acc = StoresOfType(u.assigned_store)]
                ELSE Done("monthly",
                        MonthlyResp(m, StartDate(m), EndDate(m, aheadOfUTC),
                            MonthlyRegisters(StartDate(m),
                                EndDate(m, aheadOfUTC), s, <<>>))))
    /\ calls' = calls + 1
    /\ UNCHANGED <<cash_register, sales, ledgers>>

\* The registers query of a restricted caller: a store_id outside the
\* caller's stores gets 403; the IN clause is added when no store_id was
\* given and at least one store has the caller's type.
MonthlyQuery(r) ==
    /\ req[r].pc = "monthly_registers"
    /\ LET m == req[r].amount
           storeIds == req[r].acc
           store == req[r].store
       IN \E mode \in InListModes :
            req' = Put(r, Done("monthly",
                IF storeIds # {} /\ store # 0 /\ store \notin storeIds
                THEN Resp(403, "You are not authorized to view this store",
                          <<>>)
                ELSE MonthlyResp(m, StartDate(m), req[r].date,
                        MonthlyRegisters(StartDate(m), req[r].date, store,
                            IF storeIds # {} /\ store = 0
                            THEN <<storeIds, mode>> ELSE <<>>))))
    /\ UNCHANGED <<cash_register, sales, calls, ledgers>>

\* ------------------------------------------------------------------------
\* Database.query: a query that fails throws, and the handler's catch
\* answers 500.
\* ------------------------------------------------------------------------
ErrorMessage(kind) ==
    CASE kind = "open" -> "Error opening cash register"
      [] kind = "close" -> "Error closing cash register"
      [] kind = "sale" -> "Error recording sale"
      [] kind = "today" -> "Error fetching cash register status"
      [] kind = "monthly" -> "Error fetching monthly cash registers"
      [] kind = "clock-in" -> "Error clocking in"
      [] kind = "clock-out" -> "Error clocking out"
      [] kind = "update-sale" -> "Error updating sale"
      [] kind = "expense" -> "Error recording expense"
      [] kind = "summary" -> "Error fetching attendance summary"
      [] kind = "delete-expense" -> "Error deleting expense"
      [] kind = "fix-problem" -> "Error marking problem as fixed"
      [] kind = "expenses" -> "Error fetching expenses"

\* QueryFails whose catch answers 200.
QueryFailsAnswersSuccess(r) ==
    /\ req[r].pc \notin {"idle", "done"}
    /\ req' = Put(r, Done(req[r].kind, Resp(200, "", <<>>)))
    /\ UNCHANGED <<cash_register, sales, calls, ledgers>>
QueryFails(r) ==
    /\ req[r].pc \notin {"idle", "done"}
    /\ req' = Put(r,
                Done(req[r].kind, Resp(500, ErrorMessage(req[r].kind), <<>>)))
    /\ UNCHANGED <<cash_register, sales, calls, ledgers>>

Next ==
    \E r \in Slots :
        \/ OpenSelect(r)
        \/ OpenUpdate(r)
        \/ OpenInsert(r)
        \/ OpenStore(r)
        \/ CloseSelect(r)
        \/ CloseSum(r)
        \/ CloseUpdate(r)
        \/ CloseStore(r)
        \/ SaleInsert(r)
        \/ SaleStore(r)
        \/ TodayStart(r)
        \/ TodayQuery(r)
        \/ TodaySales(r)
        \/ QueryFails(r)

Spec == Init /\ [][Next]_vars

\* ------------------------------------------------------------------------
\* The monthly statistics over stored registers: the store holds any table
\* of at most MaxRows register entries, open or closed, and one
\* GET /monthly request is served.
\* ------------------------------------------------------------------------
MaxRows == 2

\* What a stored entry can hold besides its key: still open, closed with
\* the expected cash, closed short of it.
StoredClosings ==
    {[closing_cash |-> NULL, calculated_cash |-> NULL,
      cash_difference |-> NULL],
     [closing_cash |-> Some(15000), calculated_cash |-> Some(15000),
      cash_difference |-> Some(0)],
     [closing_cash |-> Some(10000), calculated_cash |-> Some(15000),
      cash_difference |-> Some(-5000)]}

StoredRegister(id, store, date, c) ==
    [register_id |-> id, store_id |-> store, user_id |-> 1,
     register_date |-> date, opening_cash |-> 10000,
     closing_cash |-> c.closing_cash, calculated_cash |-> c.calculated_cash,
     cash_difference |-> c.cash_difference, notes |-> NULL]

InitStats ==
    /\ \E n \in 0..MaxRows :
         \E store \in [1..n -> StoreIds], date \in [1..n -> Dates],
            c \in [1..n -> StoredClosings] :
            cash_register =
                [i \in 1..n |-> StoredRegister(i, store[i], date[i], c[i])]
    /\ sales \in {<<>>, InsertSale(<<>>, 1, 531, 5000, 0, 0, 0)}
    /\ expenses = <<>>
    /\ staff_attendance = <<>>
    /\ game_problems = <<>>
    /\ req = [r \in Slots |-> IdleReq]
    /\ calls = MaxCalls - 1

NextStats ==
    \E r \in Slots :
        \/ MonthlyStart(r)
        \/ MonthlyQuery(r)
        \/ QueryFails(r)

SpecStats == InitStats /\ [][NextStats]_vars

\* ------------------------------------------------------------------------
\* POST /api/attendance/clock-in and POST /api/attendance/clock-out
\* ------------------------------------------------------------------------
\* A timestamp of a JSON body: an ISO string "2024-MM-DDThh:mm:ss", a number
\* of milliseconds since the epoch, or undefined.  The time of day is
\* counted in seconds.
Iso(d, s) == [kind |-> "iso", date |-> d, sec |-> s]

Millis(d, s) == [kind |-> "ms", date |-> d, sec |-> s]

NoTime == [kind |-> "undefined", date |-> 0, sec |-> 0]

\* A JavaScript number: an integer or NaN.
Num(n) == [nan |-> FALSE, n |-> n]

NaN == [nan |-> TRUE, n |-> 0]

\* The DATETIME a column takes from a bound parameter: an ISO string is
\* parsed to its date and time; a 13-digit number is no YYYYMMDDhhmmss value
\* and is stored as the zero date (under a strict sql_mode the statement is
\* rejected instead, which is QueryFails).
ZeroDate == [date |-> 0, sec |-> 0]

SqlDateTime(t) ==
    IF t.kind = "iso" THEN [date |-> t.date, sec |-> t.sec] ELSE ZeroDate

\* Days from 1 January to the first day of month m.
RECURSIVE DaysBefore(_)
DaysBefore(m) == IF m <= 1 THEN 0 ELSE DaysInMonth(m - 1) + DaysBefore(m - 1)

\* Date.getTime() in seconds, counted from the start of the year.
getTime(t) == (DaysBefore(t.date \div 100) + (t.date % 100) - 1) * 86400 + t.sec

\* logoutTime - loginTime, in seconds: loginTime is a Date; logoutTime is
\* the body's value as it came, and ToNumber of an ISO string or of
\* undefined is NaN.
Minus(logoutTime, loginTime) ==
    IF logoutTime.kind = "ms"
    THEN Num(getTime(logoutTime) - getTime(loginTime))
    ELSE NaN

\* Math.round(num / den): the nearest integer, a half rounding up.
MathRound(num, den) == (2 * num + den) \div (2 * den)

\* Math.round((logoutTime - loginTime) / (1000 * 60))
workDurationMinutes(logoutTime, loginTime) ==
    LET diff == Minus(logoutTime, loginTime) IN
    IF diff.nan THEN NaN ELSE Num(MathRound(diff.n, 60))

\* The callers of the attendance routes.
Clockers == {u \in Users : u.user_type \in {"staff", "manager"}}

PlaceA == [latitude |-> 10, longitude |-> 70]

PlaceB == [latitude |-> 20, longitude |-> 80]

\* The bodies of POST /clock-in: 09:00 on either day, one without store_id,
\* one without login_time.
ClockInBodies ==
    {[store_id |-> Given(1), place |-> PlaceA, login_time |-> Iso(531, 32400)],
     [store_id |-> Given(1), place |-> PlaceA, login_time |-> Iso(601, 32400)],
     [store_id |-> Absent, place |-> PlaceA, login_time |-> Iso(531, 32400)],
     [store_id |-> Given(1), place |-> PlaceA, login_time |-> NoTime]}

\* The bodies of POST /clock-out: 17:30:00 and 17:30:30 as ISO strings,
\* 17:30:30 and 08:00:00 as numbers, a timestamp of the day before the named
\* date, and one without date.
ClockOutBodies ==
    {[date |-> Given(531), place |-> PlaceA, logout_time |-> Iso(531, 63000)],
     [date |-> Given(531), place |-> PlaceB, logout_time |-> Iso(531, 63030)],
     [date |-> Given(531), place |-> PlaceB, logout_time |-> Millis(531, 63030)],
     [date |-> Given(531), place |-> PlaceB, logout_time |-> Millis(531, 28800)],
     [date |-> Given(601), place |-> PlaceB, logout_time |-> Iso(531, 28800)],
     [date |-> Absent, place |-> PlaceA, logout_time |-> Iso(531, 63000)]}

\* SELECT * FROM staff_attendance
\*   WHERE user_id = ? AND attendance_date = ? AND logout_time IS NULL
SelectOpenAttendance(user, date) ==
    SelectSeq(staff_attendance,
              LAMBDA row: /\ row.user_id = user
                          /\ row.attendance_date = date
                          /\ row.logout_time = NULL)

\* INSERT INTO staff_attendance (user_id, store_id, login_latitude,
\*   login_longitude, login_time) VALUES (?, ?, ?, ?, ?)
\* The statement names neither attendance_date nor the logout columns:
\* attendance_date is the date the table derives from login_time, the
\* others are NULL.
InsertAttendance(table, user, store, place, login_time) ==
    Append(table,
        [attendance_id |-> Len(table) + 1, user_id |-> user,
         store_id |-> store,
         attendance_date |-> SqlDateTime(login_time).date,
         login_time |-> SqlDateTime(login_time),
         login_latitude |-> place.latitude,
         login_longitude |-> place.longitude,
         logout_time |-> NULL, logout_latitude |-> NULL,
         logout_longitude |-> NULL, work_duration_minutes |-> NULL])

\* UPDATE staff_attendance SET logout_time = ?, logout_latitude = ?,
\*   logout_longitude = ? WHERE attendance_id = ?
UpdateLogout(table, id, logoutTime, place) ==
    [i \in DOMAIN table |->
        IF table[i].attendance_id = id
        THEN [table[i] EXCEPT !.logout_time = Some(SqlDateTime(logoutTime)),
                              !.logout_latitude = Some(place.latitude),
                              !.logout_longitude = Some(place.longitude)]
        ELSE table[i]]

\* The request arrives and passes authorize; `login_time.split('T')[0]`
\* throws unless login_time is a string; the SELECT of the open records of
\* the user and that date runs, and `existingAttendance.length > 0` answers
\* 400.
ClockInCall(r, u, b) ==
    /\ Free(r)
    /\ authorize(CashRoles, u)
    /\ req' = Put(r,
         IF b.login_time.kind # "iso"
         THEN Done("clock-in", Resp(500, "Error clocking in", <<>>))
         ELSE LET today == b.login_time.date
                  existingAttendance == SelectOpenAttendance(u.user_id, today)
              IN IF Len(existingAttendance) > 0
                 THEN Done("clock-in",
                        Resp(400, "You are already clocked in for today", <<>>))
                 ELSE [IdleReq EXCEPT !.pc = "clockin_insert",
                          !.kind = "clock-in", !.user = u.user_id,
                          !.date = today, !.args = b])
    /\ calls' = calls + 1
    /\ UNCHANGED <<cash_register, sales, ledgers>>

ClockInSelect(r) ==
    \E u \in Clockers, b \in ClockInBodies : ClockInCall(r, u, b)

\* The INSERT; pool.execute throws on an undefined bind parameter.
ClockInInsert(r) ==
    /\ req[r].pc = "clockin_insert"
    /\ LET b == req[r].args IN
       IF b.store_id = Absent
       THEN /\ req' = Put(r, Done("clock-in",
                        Resp(500, "Error clocking in", <<>>)))
            /\ UNCHANGED staff_attendance
       ELSE /\ staff_attendance' =
                InsertAttendance(staff_attendance, req[r].user, b.store_id[1],
                                 b.place, b.login_time)
            /\ req' = Put(r, [req[r] EXCEPT !.pc = "clockin_store",
                                 !.store = b.store_id[1],
                                 !.total = Len(staff_attendance) + 1])
    /\ UNCHANGED <<cash_register, sales, expenses, game_problems, calls>>

\* The store lookup and the 201 response.
ClockInStore(r) ==
    /\ req[r].pc = "clockin_store"
    /\ req' = Put(r, Done("clock-in",
            IF StoreRowFound(req[r].store)
            THEN Resp(201, "Clocked in successfully",
                      [attendance_id |-> req[r].total,
                       login_time |-> req[r].args.login_time])
            ELSE Resp(500, "Error clocking in", <<>>)))
    /\ UNCHANGED <<cash_register, sales, calls, ledgers>>

\* The request arrives and passes authorize; the SELECT of the open records
\* of the user and the body's date runs (an undefined date is an undefined
\* bind parameter); `attendance.length === 0` answers 400; otherwise the
\* duration is computed from the first record.
ClockOutCall(r, u, b) ==
    /\ Free(r)
    /\ authorize(CashRoles, u)
    /\ req' = Put(r,
         IF b.date = Absent
         THEN Done("clock-out", Resp(500, "Error clocking out", <<>>))
         ELSE LET today == b.date[1]
                  attendance == SelectOpenAttendance(u.user_id, today)
              IN IF Len(attendance) = 0
                 THEN Done("clock-out",
                        Resp(400, "No active attendance found for today", <<>>))
                 ELSE LET attendanceRecord == attendance[1] IN
                      [IdleReq EXCEPT !.pc = "clockout_update",
                          !.kind = "clock-out", !.user = u.user_id,
                          !.date = today,
                          !.total = attendanceRecord.attendance_id,
                          !.args = [body |-> b,
                                    loginTime |-> attendanceRecord.login_time]])
    /\ calls' = calls + 1
    /\ UNCHANGED <<cash_register, sales, ledgers>>

ClockOutSelect(r) ==
    \E u \in Clockers, b \in ClockOutBodies : ClockOutCall(r, u, b)

\* The UPDATE by attendance_id and the response.
ClockOutUpdate(r) ==
    /\ req[r].pc = "clockout_update"
    /\ LET logoutTime == req[r].args.body.logout_time
           loginTime == req[r].args.loginTime
       IN IF logoutTime.kind = "undefined"
          THEN /\ req' = Put(r, Done("clock-out",
                           Resp(500, "Error clocking out", <<>>)))
               /\ UNCHANGED staff_attendance
          ELSE /\ staff_attendance' =
                    UpdateLogout(staff_attendance, req[r].total, logoutTime,
                                 req[r].args.body.place)
               /\ req' = Put(r, Done("clock-out",
                      Resp(200, "Clocked out successfully",
                           [login_time |-> loginTime,
                            logout_time |-> logoutTime,
                            work_duration_minutes |->
                                workDurationMinutes(logoutTime, loginTime)])))
    /\ UNCHANGED <<cash_register, sales, expenses, game_problems, calls>>

NextAttendance ==
    \E r \in Slots :
        \/ ClockInSelect(r)
        \/ ClockInInsert(r)
        \/ ClockInStore(r)
        \/ ClockOutSelect(r)
        \/ ClockOutUpdate(r)
        \/ QueryFails(r)

SpecAttendance == Init /\ [][NextAttendance]_vars

\* ------------------------------------------------------------------------
\* The two routes that create a day's record, Open and ClockIn, side by
\* side.
\* ------------------------------------------------------------------------
NextCreate ==
    \E r \in Slots :
        \/ OpenSelect(r)
        \/ OpenUpdate(r)
        \/ OpenInsert(r)
        \/ OpenStore(r)
        \/ ClockInSelect(r)
        \/ ClockInInsert(r)
        \/ ClockInStore(r)
        \/ QueryFails(r)

SpecCreate == Init /\ [][NextCreate]_vars
\* ------------------------------------------------------------------------
\* The attendance summary matrix (BuildSummaryMatrix): a day-by-user grid
\* over an inclusive date range, each cell classified by the hours worked,
\* and a summary for each user.
\* ------------------------------------------------------------------------
\* The calendar day after a date.
NextDay(d) ==
    IF d % 100 >= DaysInMonth(d \div 100)
    THEN 100 * (d \div 100 + 1) + 1
    ELSE d + 1

\* The inclusive list of calendar dates from startDate to endDate.
RECURSIVE DateList(_, _)
DateList(startDate, endDate) ==
    IF startDate > endDate THEN <<>>
    ELSE <<startDate>> \o DateList(NextDay(startDate), endDate)

\* The eligible users in user_id order: staff and managers, filtered by
\* store assignment (storeScope, "all" for none) and by user (userScope,
\* 0 for none).
Eligible(u, storeScope, userScope) ==
    /\ u.user_type \in {"staff", "manager"}
    /\ storeScope = "all" \/ u.assigned_store = storeScope
    /\ userScope = 0 \/ u.user_id = userScope

RECURSIVE OrderByUserId(_)
OrderByUserId(users) ==
    IF users = {} THEN <<>>
    ELSE LET u == CHOOSE x \in users : \A y \in users : x.user_id <= y.user_id
         IN <<u>> \o OrderByUserId(users \ {u})

\* The attendance record of a user and a date, if any.
RecordOf(table, user, date) ==
    LET rows == SelectSeq(table, LAMBDA row: /\ row.user_id = user
                                             /\ row.attendance_date = date)
    IN IF rows = <<>> THEN NULL ELSE Some(rows[1])

\* The hours of a record, in hundredths: durationMinutes / 60, and 0
\* without a stored duration.
HoursOf(row) ==
    IF row.work_duration_minutes = NULL THEN 0
    ELSE (row.work_duration_minutes[1] * 100) \div 60

\* The class of a record with logout, by its hours in hundredths.  No
\* threshold covers hours = 0; such a record stays clocked_in_only.
ClassOfHoursPresentAbove9(hours) ==
    IF hours > 900 THEN "present"
    ELSE IF hours >= 800 THEN "short_hours"
    ELSE IF hours > 0 THEN "very_short"
    ELSE "clocked_in_only"

ClassOfHours(hours) ==
    IF hours >= 900 THEN "present"
    ELSE IF hours >= 800 THEN "short_hours"
    ELSE IF hours > 0 THEN "very_short"
    ELSE "clocked_in_only"

\* The cell of a user and a date.
Cell(table, user, date) ==
    LET record == RecordOf(table, user, date) IN
    IF record = NULL
    THEN [date |-> date, status |-> "absent", hours |-> 0]
    ELSE IF record[1].logout_time = NULL
    THEN [date |-> date, status |-> "clocked_in_only", hours |-> 0]
    ELSE [date |-> date, status |-> ClassOfHours(HoursOf(record[1])),
          hours |-> HoursOf(record[1])]

RECURSIVE CellsOf(_, _, _)
CellsOf(table, user, dates) ==
    IF dates = <<>> THEN <<>>
    ELSE <<Cell(table, user, Head(dates))>> \o CellsOf(table, user, Tail(dates))

Max(a, b) == IF a >= b THEN a ELSE b

\* present_days, total_hours and missing_hours over the non-absent cells.
RECURSIVE FoldCells(_, _)
FoldCells(cells, acc) ==
    IF cells = <<>> THEN acc
    ELSE FoldCells(Tail(cells),
            IF Head(cells).status = "absent" THEN acc
            ELSE [present_days |-> acc.present_days + 1,
                  total_hours |-> acc.total_hours + Head(cells).hours,
                  missing_hours |->
                      acc.missing_hours + Max(0, 900 - Head(cells).hours)])

\* The summary of a user row.
SummaryOf(cells) ==
    LET acc == FoldCells(cells,
                 [present_days |-> 0, total_hours |-> 0, missing_hours |-> 0])
    IN [total_days |-> Len(cells), present_days |-> acc.present_days,
        absent_days |-> Len(cells) - acc.present_days,
        total_hours |-> acc.total_hours,
        missing_hours |-> acc.missing_hours,
        average_hours |-> IF acc.present_days = 0 THEN Zero
                          ELSE Quot(acc.total_hours, acc.present_days)]

RECURSIVE UserRows(_, _, _)
UserRows(table, users, dates) ==
    IF users = <<>> THEN <<>>
    ELSE LET cells == CellsOf(table, Head(users).user_id, dates) IN
         <<[user |-> Head(users).user_id, cells |-> cells,
            summary |-> SummaryOf(cells)]>>
            \o UserRows(table, Tail(users), dates)

BuildSummaryMatrixOverRecords(table, storeScope, startDate, endDate, userScope) ==
    LET dates == DateList(startDate, endDate)
        users == OrderByUserId(
                    {u \in Users : /\ Eligible(u, storeScope, userScope)
                                   /\ \E i \in DOMAIN table :
                                        table[i].user_id = u.user_id})
    IN [columns |-> dates, rows |-> UserRows(table, users, dates)]

BuildSummaryMatrix(table, storeScope, startDate, endDate, userScope) ==
    LET dates == DateList(startDate, endDate)
        users == OrderByUserId(
                    {u \in Users : Eligible(u, storeScope, userScope)})
    IN [columns |-> dates, rows |-> UserRows(table, users, dates)]

\* The requests: a single day and two ranges across the end of May; all
\* stores or the arcade; all users or user 1.
SummaryRanges == {<<601, 601>>, <<531, 601>>, <<530, 602>>}

SummaryScopes ==
    {[storeScope |-> "all", userScope |-> 0],
     [storeScope |-> "arcade", userScope |-> 0],
     [storeScope |-> "all", userScope |-> 1]}

\* The request arrives; the answered request keeps its arguments.
SummaryStart(r) ==
    /\ Free(r)
    /\ \E u \in Users, range \in SummaryRanges, scope \in SummaryScopes :
         /\ authorize({"manager", "admin"}, u)
         /\ req' = Put(r, [IdleReq EXCEPT !.pc = "summary_query",
                              !.kind = "summary",
                              !.args = [startDate |-> range[1],
                                        endDate |-> range[2],
                                        storeScope |-> scope.storeScope,
                                        userScope |-> scope.userScope]])
    /\ calls' = calls + 1
    /\ UNCHANGED <<cash_register, sales, ledgers>>

\* The records of the range are read and the matrix is built.
SummaryQuery(r) ==
    /\ req[r].pc = "summary_query"
    /\ LET a == req[r].args IN
       req' = Put(r, [Done("summary",
                        Resp(200, "",
                             BuildSummaryMatrix(staff_attendance, a.storeScope,
                                 a.startDate, a.endDate, a.userScope)))
                      EXCEPT !.args = a])
    /\ UNCHANGED <<cash_register, sales, calls, ledgers>>

\* What a stored record can hold besides its key: still open; closed by the
\* present clock-out, which stores no duration; closed by the earlier
\* revision of clock-out, which stored the minutes worked.
StoredDurations == {479, 480, 540}

StoredDays ==
    {[closed |-> FALSE, work_duration_minutes |-> NULL],
     [closed |-> TRUE, work_duration_minutes |-> NULL]}
    \cup {[closed |-> TRUE, work_duration_minutes |-> Some(m)] :
            m \in StoredDurations}

StoredAttendance(id, user, date, c) ==
    [attendance_id |-> id, user_id |-> user, store_id |-> 1,
     attendance_date |-> date,
     login_time |-> [date |-> date, sec |-> 32400],
     login_latitude |-> 10, login_longitude |-> 70,
     logout_time |->
        IF c.closed THEN Some([date |-> date, sec |-> 63000]) ELSE NULL,
     logout_latitude |-> IF c.closed THEN Some(10) ELSE NULL,
     logout_longitude |-> IF c.closed THEN Some(70) ELSE NULL,
     work_duration_minutes |-> c.work_duration_minutes]

InitMatrix ==
    /\ cash_register = <<>>
    /\ sales = <<>>
    /\ expenses = <<>>
    /\ \E n \in 0..MaxRows :
         \E user \in [1..n -> UserIds], date \in [1..n -> Dates],
            c \in [1..n -> StoredDays] :
            staff_attendance =
                [i \in 1..n |-> StoredAttendance(i, user[i], date[i], c[i])]
    /\ game_problems = <<>>
    /\ req = [r \in Slots |-> IdleReq]
    /\ calls = MaxCalls - 1

NextMatrix ==
    \E r \in Slots :
        \/ SummaryStart(r)
        \/ SummaryQuery(r)
        \/ QueryFails(r)

SpecMatrix == InitMatrix /\ [][NextMatrix]_vars

\* ------------------------------------------------------------------------
\* The sale ledger: POST /api/sales with any body, PUT /api/sales/:id, and
\* POST /api/expenses
\* ------------------------------------------------------------------------
\* The bodies of POST /api/sales: amounts are JSON numbers, in cents.  Two
\* payment kinds with the others left out, a negative cash amount, and one
\* without store_id.
SaleBodies ==
    {[store_id |-> Given(1), sale_date |-> 531, cash_amount |-> Given(5000),
      upi_amount |-> Given(1500), card_amount |-> Absent,
      booking_amount |-> Absent],
     [store_id |-> Given(1), sale_date |-> 531, cash_amount |-> Given(-2500),
      upi_amount |-> Absent, card_amount |-> Given(0),
      booking_amount |-> Given(500)],
     [store_id |-> Absent, sale_date |-> 531, cash_amount |-> Given(5000),
      upi_amount |-> Absent, card_amount |-> Absent,
      booking_amount |-> Absent]}

SalePost(r) ==
    \E u \in Tellers, b \in SaleBodies : SaleCall(r, u, b)

\* The bodies of PUT /api/sales/:id: every field given, every field given
\* with a negative amount, and the cash amount alone.
UpdateBodies ==
    {[cash_amount |-> Given(7000), upi_amount |-> Given(1000),
      card_amount |-> Given(0), booking_amount |-> Given(500),
      product_description |-> Given("p"), total_customers |-> Given(2),
      notes |-> Given("n")],
     [cash_amount |-> Given(0), upi_amount |-> Given(-1000),
      card_amount |-> Given(0), booking_amount |-> Given(0),
      product_description |-> Given("p"), total_customers |-> Given(1),
      notes |-> Given("n")],
     [cash_amount |-> Given(7000), upi_amount |-> Absent,
      card_amount |-> Absent, booking_amount |-> Absent,
      product_description |-> Absent, total_customers |-> Absent,
      notes |-> Absent]}

SaleIds == {1, 2}

\* The callers of PUT /api/sales/:id.
Editors == {u \in Users : u.user_type = "manager"}

\* SELECT * FROM sales WHERE sale_id = ?
SelectSale(id) == SelectSeq(sales, LAMBDA s: s.sale_id = id)

\* UPDATE sales SET cash_amount = ?, upi_amount = ?, card_amount = ?,
\*   booking_amount = ?, ..., total_amount = ?, ... WHERE sale_id = ?
\* (product_description, total_customers and notes are columns no modelled
\* query reads; the rows leave them out).
UpdateSale(table, id, cash, upi, card, booking, total) ==
    [i \in DOMAIN table |->
        IF table[i].sale_id = id
        THEN [table[i] EXCEPT !.cash_amount = cash, !.upi_amount = upi,
                              !.card_amount = card,
                              !.booking_amount = booking,
                              !.total_amount = total]
        ELSE table[i]]

\* The request arrives and passes authorize, and the SELECT runs.
\* `const [existingSales] = await db.query(...)` takes the first row of the
\* rows db.query returns: without a row `existingSales.length` throws; with
\* one, `.length` is undefined, the 404 branch is skipped and
\* `existingSale = existingSales[0]` is undefined, so that reading
\* `existingSale.x` for a field x left out of the body throws.
SaleUpdateCall(r, u, id, b) ==
    /\ Free(r)
    /\ authorize({"manager", "admin"}, u)
    /\ req' = Put(r,
         IF \/ SelectSale(id) = <<>>
            \/ \E f \in DOMAIN b : b[f] = Absent
         THEN Done("update-sale", Resp(500, "Error updating sale", <<>>))
         ELSE [IdleReq EXCEPT !.pc = "sale_update", !.kind = "update-sale",
                  !.user = u.user_id, !.total = id,
                  !.args = [updatedCash |-> b.cash_amount[1],
                            updatedUpi |-> b.upi_amount[1],
                            updatedCard |-> b.card_amount[1],
                            updatedBooking |-> b.booking_amount[1]]])
    /\ calls' = calls + 1
    /\ UNCHANGED <<cash_register, sales, ledgers>>

SaleUpdateSelect(r) ==
    \E u \in Editors, id \in SaleIds, b \in UpdateBodies :
        SaleUpdateCall(r, u, id, b)

\* The new total, the UPDATE and the 200 response.
SaleUpdate(r) ==
    /\ req[r].pc = "sale_update"
    /\ LET a == req[r].args IN
       sales' = UpdateSale(sales, req[r].total, a.updatedCash, a.updatedUpi,
                    a.updatedCard, a.updatedBooking,
                    total_amount(a.updatedCash, a.updatedUpi, a.updatedCard,
                                 a.updatedBooking))
    /\ req' = Put(r, Done("update-sale",
                    Resp(200, "Sale updated successfully", <<>>)))
    /\ UNCHANGED <<cash_register, calls, ledgers>>

\* The bodies of POST /api/expenses: a complete one, a negative amount, an
\* amount of 0 and no amount.
ExpenseBodies ==
    {[store_id |-> Given(1), amount |-> Given(3000), description |-> Given("d")],
     [store_id |-> Given(1), amount |-> Given(-3000), description |-> Given("d")],
     [store_id |-> Given(1), amount |-> Given(0), description |-> Given("d")],
     [store_id |-> Given(1), amount |-> Absent, description |-> Given("d")]}

\* JavaScript !x of a body field: undefined and 0 are falsy.
Falsy(field) == field = Absent \/ field[1] = 0

\* INSERT INTO expenses (store_id, user_id, expense_date, amount,
\*   description) VALUES (?, ?, ?, ?, ?)
InsertExpense(table, store, user, date, amount) ==
    Append(table,
        [expense_id |-> Len(table) + 1, store_id |-> store, user_id |-> user,
         expense_date |-> date, amount |-> amount])

\* The request arrives and passes authorize; a missing field or an amount
\* that is not above 0 is answered 400; otherwise the expense is inserted
\* under the server's date.
ExpenseCall(r, u, b, today) ==
    /\ Free(r)
    /\ authorize(CashRoles, u)
    /\ IF Falsy(b.store_id) \/ Falsy(b.amount) \/ b.description = Absent
       THEN /\ req' = Put(r, Done("expense",
                Resp(400, "Store ID, amount, and description are required",
                     <<>>)))
            /\ UNCHANGED expenses
       ELSE IF b.amount[1] <= 0
       THEN /\ req' = Put(r, Done("expense",
                Resp(400, "Amount must be greater than 0", <<>>)))
            /\ UNCHANGED expenses
       ELSE /\ expenses' = InsertExpense(expenses, b.store_id[1], u.user_id,
                                         today, b.amount[1])
            /\ req' = Put(r, [IdleReq EXCEPT !.pc = "expense_store",
                                 !.kind = "expense", !.user = u.user_id,
                                 !.store = b.store_id[1],
                                 !.total = Len(expenses) + 1])
    /\ calls' = calls + 1
    /\ UNCHANGED <<cash_register, sales, staff_attendance, game_problems>>

ExpenseInsert(r) ==
    \E u \in Tellers, b \in ExpenseBodies, today \in Dates :
        ExpenseCall(r, u, b, today)

\* The store lookup and the 201 response.
ExpenseStore(r) ==
    /\ req[r].pc = "expense_store"
    /\ req' = Put(r, Done("expense",
            IF StoreRowFound(req[r].store)
            THEN Resp(201, "Expense recorded successfully",
                      [expense_id |-> req[r].total])
            ELSE Resp(500, "Error recording expense", <<>>)))
    /\ UNCHANGED <<cash_register, sales, calls, ledgers>>

NextLedger ==
    \E r \in Slots :
        \/ SalePost(r)
        \/ SaleStore(r)
        \/ SaleUpdateSelect(r)
        \/ SaleUpdate(r)
        \/ ExpenseInsert(r)
        \/ ExpenseStore(r)
        \/ QueryFails(r)

SpecLedger == Init /\ [][NextLedger]_vars

\* ------------------------------------------------------------------------
\* The routes behind authorize('manager', 'admin'): PUT /api/sales/:id,
\* DELETE /api/expenses/:id and PUT /api/problems/:id/fix; and
\* GET /api/expenses with its staff filter.
\* ------------------------------------------------------------------------
ManagerRoles == {"manager", "admin"}

\* Who sends the requests: every user, and a caller without a token.
Callers == Users \cup Unplaced \cup {NoUser}

\* The answer to a request that does not reach the handler: authMiddleware
\* answers 401 without a token, authorize answers 403 to a user_type that is
\* not listed.
Denied(user) ==
    IF user = NoUser
    THEN Resp(401, "No authentication token, access denied", <<>>)
    ELSE Resp(403, "You do not have permission to perform this action", <<>>)

\* The request is answered by the middleware; the handler does not run.
TurnedAway(r, roles, kind, u) ==
    /\ Free(r)
    /\ ~authorize(roles, u)
    /\ req' = Put(r, Done(kind, Denied(u)))
    /\ calls' = calls + 1
    /\ UNCHANGED <<cash_register, sales, ledgers>>

\* PUT /api/sales/:id as the router mounts it: authMiddleware, authorize,
\* handler.
SaleUpdateRequest(r, u, id, b) ==
    IF authorize(ManagerRoles, u)
    THEN SaleUpdateCall(r, u, id, b)
    ELSE TurnedAway(r, ManagerRoles, "update-sale", u)

ExpenseIds == {1, 2}

\* SELECT * FROM expenses WHERE expense_id = ?
SelectExpense(id) == SelectSeq(expenses, LAMBDA e: e.expense_id = id)

\* DELETE FROM expenses WHERE expense_id = ?
DeleteExpense(table, id) == SelectSeq(table, LAMBDA e: e.expense_id # id)

\* The request passes authorize and the SELECT runs.  `const [expenses]`
\* is the first row: without a row `expenses.length` throws; with one,
\* `.length` is undefined and the 404 branch is skipped.
ExpenseDeleteCall(r, u, id) ==
    /\ Free(r)
    /\ authorize(ManagerRoles, u)
    /\ req' = Put(r,
         IF SelectExpense(id) = <<>>
         THEN Done("delete-expense", Resp(500, "Error deleting expense", <<>>))
         ELSE [IdleReq EXCEPT !.pc = "expense_delete",
                  !.kind = "delete-expense", !.user = u.user_id,
                  !.total = id])
    /\ calls' = calls + 1
    /\ UNCHANGED <<cash_register, sales, ledgers>>

ExpenseDeleteRequest(r, u, id) ==
    IF authorize(ManagerRoles, u)
    THEN ExpenseDeleteCall(r, u, id)
    ELSE TurnedAway(r, ManagerRoles, "delete-expense", u)

\* The DELETE and the 200 response.
ExpenseDelete(r) ==
    /\ req[r].pc = "expense_delete"
    /\ expenses' = DeleteExpense(expenses, req[r].total)
    /\ req' = Put(r, Done("delete-expense",
                    Resp(200, "Expense deleted successfully", <<>>)))
    /\ UNCHANGED <<cash_register, sales, staff_attendance, game_problems,
                   calls>>

ProblemIds == {1, 2}

\* The bodies of PUT /api/problems/:id/fix: with and without fixed_notes.
FixBodies == {[fixed_notes |-> Given("f")], [fixed_notes |-> Absent]}

\* SELECT * FROM game_problems WHERE problem_id = ?
SelectProblem(id) == SelectSeq(game_problems, LAMBDA p: p.problem_id = id)

\* UPDATE game_problems SET status = 'fixed', fixed_datetime = NOW(),
\*   fixed_by = ?, fixed_notes = ? WHERE problem_id = ?
UpdateFixed(table, id, user, notes) ==
    [i \in DOMAIN table |->
        IF table[i].problem_id = id
        THEN [table[i] EXCEPT !.status = "fixed", !.fixed_by = Some(user),
                              !.fixed_notes = Some(notes)]
        ELSE table[i]]

\* The request passes authorize and the SELECT runs, destructured as in
\* the DELETE above.
ProblemFixCall(r, u, id, b) ==
    /\ Free(r)
    /\ authorize(ManagerRoles, u)
    /\ req' = Put(r,
         IF SelectProblem(id) = <<>>
         THEN Done("fix-problem",
                Resp(500, "Error marking problem as fixed", <<>>))
         ELSE [IdleReq EXCEPT !.pc = "problem_fix", !.kind = "fix-problem",
                  !.user = u.user_id, !.total = id, !.args = b])
    /\ calls' = calls + 1
    /\ UNCHANGED <<cash_register, sales, ledgers>>

ProblemFixRequest(r, u, id, b) ==
    IF authorize(ManagerRoles, u)
    THEN ProblemFixCall(r, u, id, b)
    ELSE TurnedAway(r, ManagerRoles, "fix-problem", u)

\* The UPDATE and the 200 response; pool.execute throws on an undefined
\* fixed_notes.
ProblemFix(r) ==
    /\ req[r].pc = "problem_fix"
    /\ IF req[r].args.fixed_notes = Absent
       THEN /\ req' = Put(r, Done("fix-problem",
                        Resp(500, "Error marking problem as fixed", <<>>)))
            /\ UNCHANGED game_problems
       ELSE /\ game_problems' = UpdateFixed(game_problems, req[r].total,
                                    req[r].user, req[r].args.fixed_notes[1])
            /\ req' = Put(r, Done("fix-problem",
                        Resp(200, "Problem marked as fixed", <<>>)))
    /\ UNCHANGED <<cash_register, sales, expenses, staff_attendance, calls>>

\* The query strings of GET /api/expenses: store_id, start_date and
\* end_date, each given or left out (0).
ExpenseFilters ==
    [store_id : StoreIds \cup {0}, start_date : {0, 601}, end_date : {0, 531}]

\* ORDER BY e.expense_date DESC, e.created_at DESC: the newest date first
\* and, within a date, the row inserted last first.
RECURSIVE OrderExpenses(_)
OrderExpenses(rows) ==
    IF rows = {} THEN <<>>
    ELSE LET first == CHOOSE x \in rows : \A y \in rows :
                          \/ y.expense_date < x.expense_date
                          \/ /\ y.expense_date = x.expense_date
                             /\ y.expense_id <= x.expense_id
         IN <<first>> \o OrderExpenses(rows \ {first})

\* SELECT e.*, ... FROM expenses e JOIN stores s ... JOIN users u ...
\*   WHERE 1=1 [AND e.store_id = ?] [AND e.expense_date >= ?]
\*   [AND e.expense_date <= ?] ORDER BY ... LIMIT ? OFFSET ?
\* with the default page of 50 rows, which holds every row of the table.
ExpenseRows(q) ==
    OrderExpenses({expenses[i] : i \in
        {j \in DOMAIN expenses :
            /\ expenses[j].store_id \in StoreIds
            /\ expenses[j].user_id \in UserIds
            /\ q.store_id # 0 => expenses[j].store_id = q.store_id
            /\ q.start_date # 0 => expenses[j].expense_date >= q.start_date
            /\ q.end_date # 0 => expenses[j].expense_date <= q.end_date}})

\* `const [stores] = await db.query('SELECT store_id FROM stores WHERE
\* store_type = ?')` followed by `if (stores.length > 0)`: stores is the
\* first row, whose `.length` is undefined, so the IN clause is never added;
\* without a row `stores.length` throws.
StoresLookupThrows(type) == StoresOfType(type) = {}

\* The request arrives and passes authorize.  A restricted staff caller
\* first looks up the stores of their type; every other caller reads the
\* expenses at once.
ExpensesGetCall(r, u, q) ==
    /\ Free(r)
    /\ authorize(CashRoles, u)
    /\ req' = Put(r,
         IF Restricted(u)
         THEN IF StoresLookupThrows(u.assigned_store)
              THEN Done("expenses", Resp(500, "Error fetching expenses", <<>>))
              ELSE [IdleReq EXCEPT !.pc = "expenses_list", !.kind = "expenses",
                       !.user = u.user_id, !.args = q]
         ELSE [IdleReq EXCEPT !.pc = "expenses_count", !.kind = "expenses",
                  !.user = u.user_id, !.args = q, !.rows = ExpenseRows(q)])
    /\ calls' = calls + 1
    /\ UNCHANGED <<cash_register, sales, ledgers>>

\* The expenses query of a restricted caller, run without an IN clause.
ExpensesList(r) ==
    /\ req[r].pc = "expenses_list"
    /\ req' = [req EXCEPT ![r].pc = "expenses_count_stores",
                          ![r].rows = ExpenseRows(req[r].args)]
    /\ UNCHANGED <<cash_register, sales, calls, ledgers>>

\* The second stores lookup of a restricted caller, before the count.
ExpensesCountStores(r) ==
    /\ req[r].pc = "expenses_count_stores"
    /\ req' = Put(r,
         IF StoresLookupThrows(UserOfId(req[r].user).assigned_store)
         THEN Done("expenses", Resp(500, "Error fetching expenses", <<>>))
         ELSE [req[r] EXCEPT !.pc = "expenses_count"])
    /\ UNCHANGED <<cash_register, sales, calls, ledgers>>

\* SELECT COUNT(*) as total FROM expenses e WHERE 1=1, destructured:
\* countResult is the row, `countResult[0]?.total` is undefined and
\* `total` is 0.  (With a filter in the query string the statement is bound
\* more parameters than it has placeholders; a server that rejects it is
\* QueryFails.)
ExpensesCount(r) ==
    /\ req[r].pc = "expenses_count"
    /\ req' = [req EXCEPT ![r].pc = "expenses_sum", ![r].total = 0]
    /\ UNCHANGED <<cash_register, sales, calls, ledgers>>

\* SELECT COALESCE(SUM(amount), 0) ..., destructured the same way
\* (total_amount is 0), and the response.
ExpensesSum(r) ==
    /\ req[r].pc = "expenses_sum"
    /\ req' = Put(r, Done("expenses",
            Resp(200, "", [data |-> req[r].rows,
                           summary |-> [total_amount |-> 0,
                                        total_count |-> req[r].total]])))
    /\ UNCHANGED <<cash_register, sales, calls, ledgers>>

\* The store holds at most one sale, at most one problem as POST
\* /api/problems leaves it, and any table of at most MaxRows expenses, and
\* one request is served.
InitAccess ==
    /\ cash_register = <<>>
    /\ sales \in {<<>>, InsertSale(<<>>, 1, 531, 5000, 0, 0, 0)}
    /\ \E n \in 0..MaxRows :
         \E store \in [1..n -> StoreIds], date \in [1..n -> Dates] :
            expenses = [i \in 1..n |->
                [expense_id |-> i, store_id |-> store[i], user_id |-> 1,
                 expense_date |-> date[i], amount |-> 3000]]
    /\ staff_attendance = <<>>
    /\ game_problems \in
         {<<>>, <<[problem_id |-> 1, store_id |-> 1, user_id |-> 1,
                   status |-> "reported", fixed_by |-> NULL,
                   fixed_notes |-> NULL]>>}
    /\ req = [r \in Slots |-> IdleReq]
    /\ calls = MaxCalls - 1

NextAccess ==
    \E r \in Slots :
        \/ \E u \in Callers, id \in SaleIds, b \in UpdateBodies :
               SaleUpdateRequest(r, u, id, b)
        \/ SaleUpdate(r)
        \/ \E u \in Callers, id \in ExpenseIds :
               ExpenseDeleteRequest(r, u, id)
        \/ ExpenseDelete(r)
        \/ \E u \in Callers, id \in ProblemIds, b \in FixBodies :
               ProblemFixRequest(r, u, id, b)
        \/ ProblemFix(r)
        \/ \E u \in Users \cup Unplaced, q \in ExpenseFilters :
               ExpensesGetCall(r, u, q)
        \/ ExpensesList(r)
        \/ ExpensesCountStores(r)
        \/ ExpensesCount(r)
        \/ ExpensesSum(r)
        \/ QueryFails(r)

SpecAccess == InitAccess /\ [][NextAccess]_vars
\* ------------------------------------------------------------------------
\* Properties of the cash register
\* ------------------------------------------------------------------------
SamePair(row, store, date) ==
    row.store_id = store /\ row.register_date = date

PairRows(table, store, date) ==
    {i \in DOMAIN table : SamePair(table[i], store, date)}

\* C1: after any sequence of Open and Close calls, interleaved or not, at
\* most one cash-register entry exists for each (store, date) pair.
C1_OneEntryPerStoreDate ==
    \A s \in StoreIds, d \in Dates :
        Cardinality(PairRows(cash_register, s, d)) <= 1

\* C2: a successful Close sums the cash amounts of the sales of its own
\* store and date, persists and returns expected = opening + that sum and
\* variance = closing - expected, and leaves exactly one entry for the pair.
C2_CloseExpectedFromOwnStoreSales ==
    [][\A r \in Slots :
        /\ (req[r].pc = "close_sum" /\ req'[r].pc = "close_update")
            => req'[r].total = SumCashStore(req[r].store, req[r].date)
        /\ (req[r].pc = "close_update" /\ req'[r].pc = "close_store")
            => LET rows == PairRows(cash_register', req[r].store, req[r].date)
                   expected == req[r].opening + req[r].total
               IN /\ Cardinality(rows) = 1
                  /\ \A i \in rows :
                       /\ cash_register'[i].closing_cash = Some(req[r].amount)
                       /\ cash_register'[i].calculated_cash = Some(expected)
                       /\ cash_register'[i].cash_difference =
                              Some(req[r].amount - expected)
        /\ (req[r].pc = "close_store" /\ req'[r].resp.status = 200)
            => LET out == req'[r].resp.data IN
               /\ out.calculated_cash = req[r].opening + req[r].total
               /\ out.cash_difference = req[r].amount - out.calculated_cash
      ]_vars

\* C3: a Close on a (store, date) that has an entry with a closing balance
\* answers 400 "already closed", writes nothing and ends there.
C3_CloseOnClosedRejected ==
    [][\A r \in Slots, s \in StoreIds, d \in Dates :
        (/\ calls' = calls + 1
         /\ req'[r].kind = "close"
         /\ \E i \in PairRows(cash_register, s, d) :
                cash_register[i].closing_cash # NULL
         /\ \E u \in Tellers, b \in CloseBodies : CloseCall(r, u, s, d, b))
        => /\ req'[r].pc = "done"
           /\ req'[r].resp.status = 400
           /\ req'[r].resp.message = "Cash register already closed for today"
           /\ cash_register' = cash_register
      ]_vars

\* A Close has been answered "already closed" while the closed entry is
\* stored.
C3_Witness ==
    \E r \in Slots :
        /\ req[r].kind = "close"
        /\ req[r].resp.message = "Cash register already closed for today"
        /\ \E i \in DOMAIN cash_register :
               cash_register[i].closing_cash # NULL

\* C4: a Close on a (store, date) without an entry answers 400 "not
\* opened", creates and modifies no register entry and ends there.
C4_CloseOnMissingRejected ==
    [][\A r \in Slots, s \in StoreIds, d \in Dates :
        (/\ calls' = calls + 1
         /\ req'[r].kind = "close"
         /\ PairRows(cash_register, s, d) = {}
         /\ \E u \in Tellers, b \in CloseBodies : CloseCall(r, u, s, d, b))
        => /\ req'[r].pc = "done"
           /\ req'[r].resp.status = 400
           /\ req'[r].resp.message = "Cash register not opened for today"
           /\ cash_register' = cash_register
      ]_vars

\* A Close has been answered "not opened".
C4_Witness ==
    \E r \in Slots :
        /\ req[r].kind = "close"
        /\ req[r].resp.status = 400
        /\ req[r].resp.message = "Cash register not opened for today"

\* C5: of two concurrent Close calls on one (store, date) at most one
\* writes: the closing balance, expected value and variance stored by one
\* call are never overwritten by another.
C5_ClosedValuesWrittenOnce ==
    [][\A i \in DOMAIN cash_register :
        cash_register[i].closing_cash # NULL
        => /\ cash_register'[i].closing_cash = cash_register[i].closing_cash
           /\ cash_register'[i].calculated_cash =
                  cash_register[i].calculated_cash
           /\ cash_register'[i].cash_difference =
                  cash_register[i].cash_difference
      ]_vars

\* What CONCAT_WS leaves of the stored notes and the notes of the call:
\* both present, the stored ones, the separator, the new ones.
Appended(before, after, notes) ==
    IF before # NULL /\ notes # NULL
    THEN after = Some(before[1] \o <<" | ">> \o notes[1])
    ELSE IF notes # NULL THEN after = notes
    ELSE before # NULL => after = before

\* C6: an Open on a (store, date) that already has an entry inserts no row,
\* sets the entry's opening balance to the value of this call, appends the
\* call's notes to the stored notes after a separator, and answers with the
\* 400 conflict.
C6_ReopenUpdatesEntry ==
    [][\A r \in Slots :
        /\ \A s \in StoreIds, d \in Dates :
             (/\ calls' = calls + 1
              /\ req'[r].kind = "open"
              /\ PairRows(cash_register, s, d) # {}
              /\ \E u \in Tellers, b \in OpenBodies : OpenCall(r, u, s, d, b))
             => req'[r].pc = "open_update" /\ cash_register' = cash_register
        /\ (req[r].pc = "open_update" /\ req'[r].pc = "done"
                /\ req'[r].resp.status # 500)
            => /\ Len(cash_register') = Len(cash_register)
               /\ PairRows(cash_register', req[r].store, req[r].date) =
                      PairRows(cash_register, req[r].store, req[r].date)
               /\ \A i \in PairRows(cash_register, req[r].store, req[r].date) :
                    /\ cash_register'[i].opening_cash = req[r].amount
                    /\ Appended(cash_register[i].notes,
                                cash_register'[i].notes, req[r].notes)
               /\ req'[r].resp.status = 400
      ]_vars

\* A second Open has been answered with the conflict, and the entry holds
\* its opening balance and both notes.
C6_Witness ==
    \E r \in Slots, i \in DOMAIN cash_register :
        /\ req[r].kind = "open"
        /\ req[r].resp.status = 400
        /\ cash_register[i].opening_cash = 50000
        /\ cash_register[i].notes = Some(<<"o", " | ", "o">>)

\* C7: when a Close is given closing = opening + the cash sales of its own
\* store and date, it computes expected = closing and variance = 0, and the
\* monthly statistics count the entry as a perfect match, whatever other
\* stores sold that day.
C7_ExactCloseIsPerfectMatch ==
    [][\A r \in Slots :
        (/\ req[r].pc = "close_sum" /\ req'[r].pc = "close_update"
         /\ req[r].amount =
                req[r].opening + SumCashStore(req[r].store, req[r].date))
        => LET expected == calculated_cash(req'[r].opening, req'[r].total)
               variance == cash_difference(req'[r].amount, expected)
               entry == [store_type |-> StoreType(req[r].store),
                         opening_cash |-> req[r].opening,
                         closing_cash |-> Some(req[r].amount),
                         calculated_cash |-> Some(expected),
                         cash_difference |-> Some(variance),
                         total_cash_sales |->
                             SumCashStore(req[r].store, req[r].date)]
           IN /\ expected = req[r].amount
              /\ variance = 0
              /\ calculateMonthlyStats(<<entry>>).perfect_matches = 1
      ]_vars

\* The successful answers of GET /monthly.
MonthlyAnswers ==
    {r \in Slots : req[r].kind = "monthly" /\ req[r].resp.status = 200}

ClosedOf(data) == {i \in DOMAIN data : data[i].closing_cash # NULL}

\* C8: the monthly statistics count days_opened = the entries, days_closed =
\* the entries with a closing balance, perfect_matches = the closed entries
\* of variance 0 and variances = the closed entries of another variance, so
\* perfect_matches + variances = days_closed <= days_opened.
C8_MonthlyCounts ==
    \A r \in MonthlyAnswers :
        LET data == req[r].resp.data.data
            stats == req[r].resp.data.statistics
            closed == ClosedOf(data)
        IN /\ stats.days_opened = Len(data)
           /\ stats.days_closed = Cardinality(closed)
           /\ stats.perfect_matches = Cardinality(
                {i \in closed : data[i].cash_difference = Some(0)})
           /\ stats.variances = Cardinality(
                {i \in closed : data[i].cash_difference # Some(0)})
           /\ stats.perfect_matches + stats.variances = stats.days_closed
           /\ stats.days_closed <= stats.days_opened

\* A month with an open entry beside a closed one has been aggregated.
C8_Witness ==
    \E r \in MonthlyAnswers :
        LET stats == req[r].resp.data.statistics IN
        /\ stats.days_closed = 1
        /\ stats.days_opened = 2
        /\ stats.variances = 1

\* C9: the monthly statistics report average opening = total opening / days
\* opened and average variance = total variance / days closed, and 0 for an
\* average whose divisor is 0.
C9_MonthlyAverages ==
    \A r \in MonthlyAnswers :
        LET data == req[r].resp.data.data
            stats == req[r].resp.data.statistics
            closed == ClosedOf(data)
            opening == SumSeq([i \in DOMAIN data |-> data[i].opening_cash])
            variance == SumSeq([i \in DOMAIN data |->
                            IF i \in closed
                            THEN data[i].cash_difference[1] ELSE 0])
        IN /\ stats.average_opening_cash =
                IF Len(data) = 0 THEN Zero ELSE Quot(opening, Len(data))
           /\ stats.average_cash_difference =
                IF closed = {} THEN Zero
                ELSE Quot(variance, Cardinality(closed))

\* A month whose entries are all open has been aggregated: the average
\* opening is a quotient and the average variance is the guarded 0.
C9_Witness ==
    \E r \in MonthlyAnswers :
        LET stats == req[r].resp.data.statistics IN
        /\ stats.days_opened = 2
        /\ stats.days_closed = 0
        /\ stats.average_opening_cash = Quot(20000, 2)
        /\ stats.average_cash_difference = Zero

\* A step of a GET /today handler: its arrival in the lowest free slot, or
\* a query of the handler in flight.
TodayStep(r) ==
    \/ Free(r) /\ calls' = calls + 1 /\ req'[r].kind = "today"
    \/ /\ req[r].kind = "today"
       /\ req[r].pc \notin {"idle", "done"}
       /\ req'[r] # req[r]

\* C10: GET /today leaves every register entry and every sale as it is, for
\* every caller and date, whether the registers are closed or not.
C10_TodayReadOnly ==
    [][(\E r \in Slots : TodayStep(r))
        => cash_register' = cash_register /\ sales' = sales]_vars

\* GET /today has answered with a closed register and its live cash sales.
C10_Witness ==
    \E r \in Slots :
        /\ req[r].kind = "today"
        /\ req[r].resp.status = 200
        /\ \E i \in DOMAIN req[r].resp.data.registers :
               req[r].resp.data.registers[i].register.closing_cash # NULL

\* ------------------------------------------------------------------------
\* Properties of the attendance records
\* ------------------------------------------------------------------------
OpenAttendance(user, date) ==
    {i \in DOMAIN staff_attendance :
        /\ staff_attendance[i].user_id = user
        /\ staff_attendance[i].attendance_date = date
        /\ staff_attendance[i].logout_time = NULL}

\* C11: after any sequence of ClockIn and ClockOut calls, two interleaved
\* ClockIn calls of one user included, at most one open attendance record
\* (logout time NULL) exists for each (user, date) pair.
C11_OneOpenRecordPerUserDate ==
    \A u \in Clockers, d \in Dates :
        Cardinality(OpenAttendance(u.user_id, d)) <= 1

\* C12: a ClockOut of a user who has no open record on the date of the
\* supplied logout timestamp is answered 400 "No active attendance found"
\* and changes no attendance record.
C12_ClockOutWithoutSessionRejected ==
    [][\A r \in Slots, u \in Clockers, b \in ClockOutBodies :
        (/\ calls' = calls + 1
         /\ req'[r].kind = "clock-out"
         /\ b.date # Absent
         /\ b.logout_time.kind # "undefined"
         /\ OpenAttendance(u.user_id, b.logout_time.date) = {}
         /\ ClockOutCall(r, u, b))
        => /\ req'[r].pc = "done"
           /\ req'[r].resp.status = 400
           /\ req'[r].resp.message = "No active attendance found for today"
           /\ staff_attendance' = staff_attendance]_vars

\* C13: a successful ClockOut answers durationMinutes = round((logoutTime -
\* loginTime) in minutes) for the logout timestamp the caller supplied:
\* 09:00 to 17:30 gives 510.
C13_DurationIsRoundedMinutes ==
    \A r \in Slots :
        (/\ req[r].pc = "done"
         /\ req[r].kind = "clock-out"
         /\ req[r].resp.status = 200)
        => req[r].resp.data.work_duration_minutes =
             Num(MathRound(getTime(req[r].resp.data.logout_time)
                             - getTime(req[r].resp.data.login_time), 60))

\* C14: a record whose logout time is set keeps its logout time and logout
\* coordinates through every later step, a concurrent ClockOut included,
\* and no step removes a record.
C14_ClosedRecordIsTerminal ==
    [][\A i \in DOMAIN staff_attendance :
        /\ i \in DOMAIN staff_attendance'
        /\ staff_attendance'[i].attendance_id = staff_attendance[i].attendance_id
        /\ staff_attendance[i].logout_time # NULL =>
             /\ staff_attendance'[i].logout_time = staff_attendance[i].logout_time
             /\ staff_attendance'[i].logout_latitude =
                    staff_attendance[i].logout_latitude
             /\ staff_attendance'[i].logout_longitude =
                    staff_attendance[i].logout_longitude]_vars

\* C15: every attendance record whose logout time is set also has its work
\* duration stored.
C15_LogoutImpliesDuration ==
    \A i \in DOMAIN staff_attendance :
        staff_attendance[i].logout_time # NULL
            => staff_attendance[i].work_duration_minutes # NULL

\* ------------------------------------------------------------------------
\* Properties of the attendance summary matrix
\* ------------------------------------------------------------------------
\* The number of a day within the year.
DayNumber(d) == DaysBefore(d \div 100) + (d % 100)

SummaryAnswers(r) ==
    /\ req[r].pc = "done"
    /\ req[r].kind = "summary"
    /\ req[r].resp.status = 200

CountCells(cells, classes) ==
    Cardinality({j \in DOMAIN cells : cells[j].status \in classes})

AttendanceClasses ==
    {"absent", "clocked_in_only", "very_short", "short_hours", "present"}

\* C16: for every inclusive date range and every set of eligible users the
\* matrix has exactly daysInRange x eligibleUsers cells: one row for each
\* eligible user, with or without records, one cell for each day of the
\* range in calendar order, and in every row absent_days + present_days =
\* total_days, counting the absent and the other cells.
C16_MatrixIsFullGrid ==
    \A r \in Slots : SummaryAnswers(r) =>
        LET a == req[r].args
            rows == req[r].resp.data.rows
            daysInRange == DayNumber(a.endDate) - DayNumber(a.startDate) + 1
            eligibleUsers ==
                {u.user_id : u \in {x \in Users :
                                Eligible(x, a.storeScope, a.userScope)}}
        IN /\ Len(rows) = Cardinality(eligibleUsers)
           /\ {rows[i].user : i \in DOMAIN rows} = eligibleUsers
           /\ SumSeq([i \in DOMAIN rows |-> Len(rows[i].cells)])
                = daysInRange * Cardinality(eligibleUsers)
           /\ \A i \in DOMAIN rows :
                /\ Len(rows[i].cells) = daysInRange
                /\ \A j \in DOMAIN rows[i].cells :
                     DayNumber(rows[i].cells[j].date)
                        = DayNumber(a.startDate) + j - 1
                /\ rows[i].summary.total_days = daysInRange
                /\ rows[i].summary.absent_days
                     = CountCells(rows[i].cells, {"absent"})
                /\ rows[i].summary.present_days
                     = CountCells(rows[i].cells, AttendanceClasses \ {"absent"})
                /\ rows[i].summary.absent_days + rows[i].summary.present_days
                     = rows[i].summary.total_days

\* A range across the end of May is answered with a row of absent cells for
\* a user without any record next to a row that has a record.
C16_Witness ==
    \E r \in Slots :
        /\ SummaryAnswers(r)
        /\ req[r].args.startDate < 600
        /\ req[r].args.endDate > 600
        /\ \E i, k \in DOMAIN req[r].resp.data.rows :
             /\ \A n \in DOMAIN staff_attendance :
                  staff_attendance[n].user_id # req[r].resp.data.rows[i].user
             /\ req[r].resp.data.rows[i].summary.absent_days
                  = Len(req[r].resp.data.columns)
             /\ req[r].resp.data.rows[k].summary.present_days > 0
             /\ req[r].resp.data.rows[k].summary.absent_days > 0

\* C17: every cell has exactly one class: absent without a record,
\* clocked_in_only for a record without logout, and for a record with
\* logout present when hours >= 9, short_hours when 8 <= hours < 9 and
\* very_short when 0 < hours < 8; 9.00 is present, 8.99 and 8.00 are
\* short_hours and 7.99 is very_short.
C17_CellClassification ==
    /\ ClassOfHours(900) = "present"
    /\ ClassOfHours(899) = "short_hours"
    /\ ClassOfHours(800) = "short_hours"
    /\ ClassOfHours(799) = "very_short"
    /\ \A r \in Slots : SummaryAnswers(r) =>
         \A i \in DOMAIN req[r].resp.data.rows :
            \A j \in DOMAIN req[r].resp.data.rows[i].cells :
                LET cell == req[r].resp.data.rows[i].cells[j]
                    record == RecordOf(staff_attendance,
                                req[r].resp.data.rows[i].user, cell.date)
                    minutes == record[1].work_duration_minutes
                IN /\ cell.status \in AttendanceClasses
                   /\ record = NULL => cell.status = "absent"
                   /\ (record # NULL /\ record[1].logout_time = NULL)
                        => cell.status = "clocked_in_only"
                   /\ (record # NULL /\ record[1].logout_time # NULL
                         /\ minutes # NULL)
                        => /\ minutes[1] >= 540 => cell.status = "present"
                           /\ (480 <= minutes[1] /\ minutes[1] < 540)
                                => cell.status = "short_hours"
                           /\ (0 < minutes[1] /\ minutes[1] < 480)
                                => cell.status = "very_short"

\* One answer holds a cell of exactly 9 hours and a cell under 8 hours next
\* to an absent cell.
C17_Witness ==
    \E r \in Slots :
        /\ SummaryAnswers(r)
        /\ \E i, k \in DOMAIN req[r].resp.data.rows :
             LET ci == req[r].resp.data.rows[i].cells
                 ck == req[r].resp.data.rows[k].cells
             IN /\ \E j \in DOMAIN ci :
                      ci[j].status = "present" /\ ci[j].hours = 900
                /\ \E j \in DOMAIN ck : ck[j].status = "very_short"
                /\ \E j \in DOMAIN ck : ck[j].status = "absent"

\* ------------------------------------------------------------------------
\* Properties of the sale ledger
\* ------------------------------------------------------------------------
\* C18: after any sequence of sale create and update requests, the stored
\* total of every sale is the sum of its cash, UPI, card and booking
\* amounts.
C18_TotalIsSumOfPayments ==
    \A i \in DOMAIN sales :
        sales[i].total_amount =
            sales[i].cash_amount + sales[i].upi_amount
                + sales[i].card_amount + sales[i].booking_amount

\* A sale created with cash and UPI has been updated to four other
\* amounts, a booking amount among them.
C18_Witness ==
    /\ \E r \in Slots :
         /\ req[r].pc = "done"
         /\ req[r].kind = "update-sale"
         /\ req[r].resp.status = 200
    /\ \E i \in DOMAIN sales :
         /\ sales[i].cash_amount = 7000
         /\ sales[i].booking_amount = 500
         /\ sales[i].total_amount = 8500

\* C19: every stored sale has a cash, UPI, card and booking amount of at
\* least 0, whatever create and update requests were made.
C19_PaymentsNotNegative ==
    \A i \in DOMAIN sales :
        /\ sales[i].cash_amount >= 0
        /\ sales[i].upi_amount >= 0
        /\ sales[i].card_amount >= 0
        /\ sales[i].booking_amount >= 0

\* A required field is missing or malformed: no store, or a negative
\* payment amount; no store, amount or description, or an amount that is
\* not positive.
MalformedSale(b) ==
    \/ b.store_id = Absent
    \/ \E f \in {"cash_amount", "upi_amount", "card_amount", "booking_amount"} :
            b[f] # Absent /\ b[f][1] < 0

MalformedExpense(b) ==
    \/ b.store_id = Absent \/ b.amount = Absent \/ b.description = Absent
    \/ b.amount[1] <= 0

\* C20: a create sale or create expense request with a missing or malformed
\* required field is answered with a validation error (400) and inserts or
\* modifies no record.
C20_MalformedRequestRejected ==
    [][\A r \in Slots :
        (/\ calls' = calls + 1
         /\ req'[r].kind \in {"sale", "expense"}
         /\ \/ \E u \in Tellers, b \in SaleBodies :
                  MalformedSale(b) /\ SaleCall(r, u, b)
            \/ \E u \in Tellers, b \in ExpenseBodies, today \in Dates :
                  MalformedExpense(b) /\ ExpenseCall(r, u, b, today))
        => /\ req'[r].pc = "done"
           /\ req'[r].resp.status = 400
           /\ sales' = sales
           /\ expenses' = expenses]_vars

\* ------------------------------------------------------------------------
\* Properties of the handlers as a whole
\* ------------------------------------------------------------------------
\* How far a handler has come: the number of queries it has issued, counting
\* the one it waits for.
Position(q) ==
    CASE q.pc = "idle" -> 0
      [] q.pc \in {"open_update", "open_insert", "close_sum", "sale_store",
                   "today_registers"} -> 1
      [] q.pc \in {"open_store", "close_update"} -> 2
      [] q.pc = "close_store" -> 3
      [] q.pc = "today_sales" -> 2 + Len(q.acc)
      [] q.pc = "done" -> 100

\* The handler waits for the last query of its route.
AtLastQuery(q) ==
    \/ q.pc \in {"open_store", "close_store", "sale_store", "today_registers"}
    \/ q.pc = "today_sales" /\ Tail(q.rows) = <<>>

NotesText(notes) == IF notes = NULL THEN <<>> ELSE notes[1]

IsPrefix(s, t) == Len(s) <= Len(t) /\ SubSeq(t, 1, Len(s)) = s

\* C22: the notes of a register entry are append-only: in every step of an
\* Open or a Close the notes an entry held before the step are a prefix of
\* the notes it holds after it.
C22_NotesAppendOnly ==
    [][\A i \in DOMAIN cash_register :
        /\ i \in DOMAIN cash_register'
        /\ IsPrefix(NotesText(cash_register[i].notes),
                    NotesText(cash_register'[i].notes))]_vars

\* An entry opened with a note and closed with another holds both.
C22_Witness ==
    \E i \in DOMAIN cash_register :
        /\ cash_register[i].closing_cash # NULL
        /\ cash_register[i].notes = Some(<<"o", " | ", "c">>)

\* C23: a closed register entry stays as it is: no step of an Open or a
\* Close changes the opening balance, closing balance, expected value or
\* variance of an entry whose closing balance is set, so that its expected
\* value stays its opening balance plus the cash sales summed at its close.
C23_ClosedEntryFrozen ==
    [][\A i \in DOMAIN cash_register :
        cash_register[i].closing_cash # NULL
        => /\ cash_register'[i].opening_cash = cash_register[i].opening_cash
           /\ cash_register'[i].closing_cash = cash_register[i].closing_cash
           /\ cash_register'[i].calculated_cash[1]
                  - cash_register'[i].opening_cash
                = cash_register[i].calculated_cash[1]
                  - cash_register[i].opening_cash
           /\ cash_register'[i].cash_difference =
                  cash_register[i].cash_difference
      ]_vars

\* The entry a turn of the loop of GET /today has added for the register at
\* the head of its rows.
AddedEntry(r) ==
    LET out == IF req'[r].pc = "done" THEN req'[r].resp.data.registers
               ELSE req'[r].acc
    IN out[Len(req[r].acc) + 1]

\* C28: for an opened, not yet closed register, the opening balance plus
\* the live cash sales GET /today reports for its store equal the expected
\* value a Close of that store and date computes from the same state.
C28_PreviewEqualsCloseExpected ==
    [][\A r \in Slots :
        (/\ req[r].pc = "today_sales"
         /\ req'[r] # req[r]
         /\ req'[r].pc = "done" => req'[r].resp.status = 200
         /\ Head(req[r].rows).closing_cash = NULL
         /\ cash_register[Head(req[r].rows).register_id] = Head(req[r].rows))
        => LET e == AddedEntry(r) IN
           e.register.opening_cash + e.cash_sales_today
             = calculated_cash(e.register.opening_cash,
                               SumCashSharedTill(req[r].date))]_vars

\* ------------------------------------------------------------------------
\* Properties of the sale update
\* ------------------------------------------------------------------------
\* The value PUT /api/sales/:id is to write for a field: the supplied one,
\* or the stored one when the body leaves the field out.
SuppliedOrStored(field, stored) == IF field = Absent THEN stored ELSE field[1]

\* C27: PUT /api/sales/:id on an id without a sale answers 404 and changes
\* nothing; on an existing sale it goes on to the UPDATE with, for each
\* amount, the supplied value or else the stored one, and the total of
\* those four.
C27_PartialUpdateKeepsOmitted ==
    [][\A r \in Slots, u \in Editors, id \in SaleIds, b \in UpdateBodies :
        SaleUpdateCall(r, u, id, b) =>
            IF SelectSale(id) = <<>>
            THEN /\ req'[r].resp.status = 404
                 /\ sales' = sales
            ELSE LET stored == SelectSale(id)[1] IN
                 /\ req'[r].pc = "sale_update"
                 /\ req'[r].args =
                      [updatedCash |->
                           SuppliedOrStored(b.cash_amount, stored.cash_amount),
                       updatedUpi |->
                           SuppliedOrStored(b.upi_amount, stored.upi_amount),
                       updatedCard |->
                           SuppliedOrStored(b.card_amount, stored.card_amount),
                       updatedBooking |->
                           SuppliedOrStored(b.booking_amount,
                                            stored.booking_amount)]]_vars

\* ------------------------------------------------------------------------
\* Properties of the clock-out duration
\* ------------------------------------------------------------------------
\* C29: every ClockOut answered 200 reports a work duration that is a
\* number of minutes of at least 0.
C29_DurationNotNegative ==
    \A r \in Slots :
        (/\ req[r].pc = "done"
         /\ req[r].kind = "clock-out"
         /\ req[r].resp.status = 200)
        => /\ ~req[r].resp.data.work_duration_minutes.nan
           /\ req[r].resp.data.work_duration_minutes.n >= 0

\* ------------------------------------------------------------------------
\* Properties of Open and ClockIn together
\* ------------------------------------------------------------------------
\* C30: Open and ClockIn are all-or-nothing: a call answered 400 or 500
\* has inserted no register entry and no attendance record.  A call
\* answered on arrival leaves both tables as they were, and a call
\* answered later has no row of its own (the id its INSERT returned) in
\* either table.
C30_FailureInsertsNothing ==
    [][\A r \in Slots :
        (/\ req'[r].pc = "done"
         /\ req'[r] # req[r]
         /\ req'[r].kind \in {"open", "clock-in"}
         /\ req'[r].resp.status \in {400, 500})
        => IF req[r].pc \in {"idle", "done"}
           THEN /\ Len(cash_register') = Len(cash_register)
                /\ Len(staff_attendance') = Len(staff_attendance)
           ELSE /\ req[r].kind = "open" =>
                     \A i \in DOMAIN cash_register' :
                         cash_register'[i].register_id # req[r].total
                /\ req[r].kind = "clock-in" =>
                     \A i \in DOMAIN staff_attendance' :
                         staff_attendance'[i].attendance_id # req[r].total
      ]_vars

\* ------------------------------------------------------------------------
\* Properties of the staff filters
\* ------------------------------------------------------------------------
\* C26: GET /monthly by a staff user restricted to a store type answers 403
\* when store_id names a store that is not of that type, and otherwise
\* returns only register entries of stores of that type, also when no
\* store has that type.
C26_MonthlyStaffFilter ==
    [][\A r \in Slots :
        (/\ req[r].pc = "monthly_registers"
         /\ req'[r].pc = "done"
         /\ req'[r].resp.status # 500)
        => LET own == StoresOfType(UserOfId(req[r].user).assigned_store)
               out == req'[r].resp
           IN IF req[r].store # 0 /\ req[r].store \notin own
              THEN out.status = 403
              ELSE /\ out.status = 200
                   /\ \A i \in DOMAIN out.data.data :
                        out.data.data[i].store_id \in own]_vars

\* ------------------------------------------------------------------------
\* Properties of the routes behind authorize
\* ------------------------------------------------------------------------
\* What a request of caller u to a route behind authorize('manager',
\* 'admin') leads to in handler slot r: 401 without a user, 403 for a user
\* of another type, in both cases with no table changed; otherwise the
\* handler runs.
GuardedOutcome(r, u) ==
    IF u = NoUser
    THEN /\ req'[r].pc = "done"
         /\ req'[r].resp.status = 401
         /\ UNCHANGED <<cash_register, sales, ledgers>>
    ELSE IF u.user_type \notin ManagerRoles
    THEN /\ req'[r].pc = "done"
         /\ req'[r].resp.status = 403
         /\ UNCHANGED <<cash_register, sales, ledgers>>
    ELSE req'[r].resp.status \notin {401, 403}

\* The ids of the users the three routes list.
ListedUserIds == {u.user_id : u \in {x \in Users : x.user_type \in ManagerRoles}}

\* C24: on the routes behind authorize('manager', 'admin') a request
\* without a user is answered 401 and a request of a user of another type
\* 403, neither changing a table; a sale is updated, an expense deleted and
\* a problem marked as fixed only by a handler running for a manager or an
\* admin, never for a staff user.
C24_OnlyListedRolesRun ==
    [][/\ \A r \in Slots, u \in Callers :
            /\ \A id \in SaleIds, b \in UpdateBodies :
                   SaleUpdateRequest(r, u, id, b) => GuardedOutcome(r, u)
            /\ \A id \in ExpenseIds :
                   ExpenseDeleteRequest(r, u, id) => GuardedOutcome(r, u)
            /\ \A id \in ProblemIds, b \in FixBodies :
                   ProblemFixRequest(r, u, id, b) => GuardedOutcome(r, u)
       /\ \A r \in Slots :
            req[r].kind \in {"update-sale", "delete-expense", "fix-problem"}
            /\ req[r].pc \notin {"idle", "done"}
            => req[r].user \in ListedUserIds
       /\ (sales' # sales \/ expenses' # expenses
             \/ game_problems' # game_problems)
            => \E r \in Slots :
                 /\ req[r].pc \in {"sale_update", "expense_delete",
                                   "problem_fix"}
                 /\ req[r].user \in ListedUserIds
                 /\ req'[r].pc = "done"]_vars

\* A staff user's DELETE of a stored expense was answered 403 and the
\* table still holds the expense.
C24_Witness ==
    \E r \in Slots :
        /\ req[r].pc = "done"
        /\ req[r].kind = "delete-expense"
        /\ req[r].resp.status = 403
        /\ expenses # <<>>

\* C25: GET /api/expenses by a staff user restricted to a store type
\* returns only expenses of stores of that type, whatever filters the query
\* string holds.
C25_ExpensesStaffFilter ==
    [][\A r \in Slots :
        (/\ req[r].pc = "expenses_sum"
         /\ req'[r].pc = "done"
         /\ req'[r].resp.status = 200
         /\ Restricted(UserOfId(req[r].user)))
        => \A i \in DOMAIN req'[r].resp.data.data :
               req'[r].resp.data.data[i].store_id
                   \in StoresOfType(UserOfId(req[r].user).assigned_store)]_vars

====
